---- MODULE Spec2Model ----
(***************************************************************************)
(* Model of the promptlight data core: the file-backed LocalDataStore      *)
(* (src-tauri/src/data/local.rs), the Firestore mirror client              *)
(* (src-tauri/src/data/firestore.rs) and the SyncService orchestrator      *)
(* (src-tauri/src/data/sync.rs).                                           *)
(*                                                                         *)
(* A partition of the disk is a record                                     *)
(*   [index : NoFile or a PromptIndex, files : (folder, filename) -> text, *)
(*    dirs : set of folder directories under prompts/].                    *)
(* The local store functions are operators from a partition (and inputs)   *)
(* to [d |-> partition after the call, ok |-> BOOLEAN, val |-> value,      *)
(* err |-> error kind].  The actions of the specification apply them to the*)
(* partition selected by SyncState.local_store, one action per lock        *)
(* acquisition or network call of the orchestrator.                        *)
(***************************************************************************)
EXTENDS Integers, Sequences, FiniteSets, TLC

\* state   the SyncState behind the lock of the SyncService
\* disk    the partitions of the disk, by data directory
\* remote  the documents of the remote store, by user id
\* task    the running operation of the orchestrator
\* now     the reading of Utc::now(); Spec takes all its steps at one reading
\* last    the auth call or construction that has just returned
\* ops     number of data operations started so far
VARIABLES state, disk, remote, task, now, last, ops

vars == <<state, disk, remote, task, now, last, ops>>

----------------------------------------------------------------------------
(* Bounds of the model *)

\* Number of ids Uuid::new_v4 can hand out.
MaxUuid == 1

\* Number of data operations (DataStore calls and bulk syncs) a run starts.
MaxOps == 2

\* Largest use_count record_usage is followed to.
MaxUse == 1

\* Latest reading of Utc::now() in the specifications where time passes.
MaxClock == 1

----------------------------------------------------------------------------
(* Values *)

\* Option::None of a user id or token
None == "None"

\* Option::None of a timestamp (timestamps are readings of the clock now)
Never == -1

\* index.json absent
NoFile == [present |-> FALSE]

Users == {"u1"}

\* the token of a sign-in or of a restored session, and a refreshed token
SignInTokens == {"t1"}
RefreshTokens == {"t2"}

Uuids == {"uuid-" \o ToString(i) : i \in 1..MaxUuid}

----------------------------------------------------------------------------
(* Strings: the std operations the store uses, on ASCII *)

Upper == "ABCDEFGHIJKLMNOPQRSTUVWXYZ"
Lower == "abcdefghijklmnopqrstuvwxyz"
Digits == "0123456789"

CharAt(s, i) == SubSeq(s, i, i)

Contains(s, c) == \E i \in 1..Len(s) : CharAt(s, i) = c

\* char::to_lowercase
lower_char(c) ==
    IF Contains(Upper, c)
    THEN CharAt(Lower, CHOOSE i \in 1..Len(Upper) : CharAt(Upper, i) = c)
    ELSE c

RECURSIVE to_lowercase(_)
to_lowercase(s) ==
    IF Len(s) = 0 THEN ""
    ELSE lower_char(CharAt(s, 1)) \o to_lowercase(SubSeq(s, 2, Len(s)))

is_alphanumeric(c) == Contains(Upper, c) \/ Contains(Lower, c) \/ Contains(Digits, c)

is_whitespace(c) == c = " "

RECURSIVE trim_start(_)
trim_start(s) ==
    IF Len(s) > 0 /\ is_whitespace(CharAt(s, 1))
    THEN trim_start(SubSeq(s, 2, Len(s)))
    ELSE s

RECURSIVE trim_end(_)
trim_end(s) ==
    IF Len(s) > 0 /\ is_whitespace(CharAt(s, Len(s)))
    THEN trim_end(SubSeq(s, 1, Len(s) - 1))
    ELSE s

trim(s) == trim_end(trim_start(s))

\* name.trim().to_lowercase() of the folder operations
normalize(name) == to_lowercase(trim(name))

\* .map(|c| if c.is_alphanumeric() { c } else { '-' })
RECURSIVE map_dash(_)
map_dash(s) ==
    IF Len(s) = 0 THEN ""
    ELSE (IF is_alphanumeric(CharAt(s, 1)) THEN CharAt(s, 1) ELSE "-")
         \o map_dash(SubSeq(s, 2, Len(s)))

\* .split('-'): the pieces between hyphens, empty pieces included
RECURSIVE split_dash(_, _)
split_dash(s, cur) ==
    IF Len(s) = 0 THEN <<cur>>
    ELSE IF CharAt(s, 1) = "-"
         THEN <<cur>> \o split_dash(SubSeq(s, 2, Len(s)), "")
         ELSE split_dash(SubSeq(s, 2, Len(s)), cur \o CharAt(s, 1))

RECURSIVE join_dash(_)
join_dash(parts) ==
    IF Len(parts) = 0 THEN ""
    ELSE IF Len(parts) = 1 THEN parts[1]
    ELSE parts[1] \o "-" \o join_dash(Tail(parts))

\* a slug that keeps the empty pieces between hyphens
slugify_unfiltered(name) == join_dash(split_dash(map_dash(to_lowercase(name)), ""))

slugify(name) ==
    join_dash(SelectSeq(split_dash(map_dash(to_lowercase(name)), ""),
                        LAMBDA p : p # ""))

----------------------------------------------------------------------------
(* Results *)

Ok(d, v) == [d |-> d, ok |-> TRUE, val |-> v, err |-> ""]
Err(d, e) == [d |-> d, ok |-> FALSE, val |-> <<>>, err |-> e]

----------------------------------------------------------------------------
(* Sequences *)

contains(s, x) == \E i \in 1..Len(s) : s[i] = x

\* iter().position(|p| p.id == id): 0 stands for None
position(prompts, id) ==
    IF \E i \in 1..Len(prompts) : prompts[i].id = id
    THEN CHOOSE i \in 1..Len(prompts) :
            /\ prompts[i].id = id
            /\ \A j \in 1..(i - 1) : prompts[j].id # id
    ELSE 0

remove(s, i) == SubSeq(s, 1, i - 1) \o SubSeq(s, i + 1, Len(s))

----------------------------------------------------------------------------
(* Record model: PromptMetadata, Prompt, PromptIndex *)

Metadata(id, name, folder, filename, use_count, last_used, created, updated) ==
    [id |-> id, name |-> name, folder |-> folder, description |-> "",
     filename |-> filename, use_count |-> use_count, last_used |-> last_used,
     created |-> created, updated |-> updated, icon |-> None, color |-> None]

\* the metadata m with the description, icon and color given
Described(m, description, icon, color) ==
    [m EXCEPT !.description = description, !.icon = icon, !.color = color]

Prompt(metadata, content) == [metadata |-> metadata, content |-> content]

PromptIndex(prompts, folders, seeded) ==
    [present |-> TRUE, prompts |-> prompts, folders |-> folders, seeded |-> seeded]

\* The seeded flag of the index built for a first run.
SampleSeeded == TRUE

\* create_sample_prompts: the index and the (filename, content) list of the
\* default library.  The table of eight samples is cut to its first row; the
\* folder list is the one of the source.
create_sample_prompts(t) ==
    [index |-> PromptIndex(
         <<Metadata("code-review", "Code Review", "development",
                    "code-review.md", 0, Never, t, t)>>,
         <<"development", "writing", "communication", "creative", "uncategorized">>,
         SampleSeeded),
     files |-> << <<"code-review.md", "Please review the following code">> >>]

\* An index file written before the seeded flag existed (serde default: false).
LegacyEmptyIndex == PromptIndex(<<>>, <<"uncategorized">>, FALSE)

EmptyPartition == [index |-> NoFile, files |-> <<>>, dirs |-> {}]

----------------------------------------------------------------------------
(* LocalDataStore: file primitives *)

\* LocalDataStore::new and LocalDataStore::for_user
new_store == [data_dir |-> "local", user_id |-> None]
for_user(u) == [data_dir |-> "users/" \o u, user_id |-> u]

DataDirs == {"local"} \cup {"users/" \o u : u \in Users}

Key(folder, filename) == <<folder, filename>>

file_exists(d, folder, filename) == Key(folder, filename) \in DOMAIN d.files

read_prompt_content(d, folder, filename) ==
    IF file_exists(d, folder, filename) THEN d.files[Key(folder, filename)] ELSE ""

Put(files, k, v) == [x \in DOMAIN files \cup {k} |-> IF x = k THEN v ELSE files[x]]

Drop(files, ks) == [x \in DOMAIN files \ ks |-> files[x]]

write_prompt_content(d, folder, filename, content) ==
    [d EXCEPT !.dirs = @ \cup {folder},
              !.files = Put(@, Key(folder, filename), content)]

delete_prompt_content(d, folder, filename) ==
    [d EXCEPT !.files = Drop(@, {Key(folder, filename)})]

save_index_sync(d, index) == [d EXCEPT !.index = index]

\* the write loop of seed_sample_prompts: file i goes to the folder of prompt i
RECURSIVE write_samples(_, _, _, _)
write_samples(d, index, files, i) ==
    IF i > Len(files) THEN d
    ELSE write_samples(
             write_prompt_content(d, index.prompts[i].folder, files[i][1], files[i][2]),
             index, files, i + 1)

seed_sample_prompts(d, t) ==
    LET s == create_sample_prompts(t)
    IN  Ok(save_index_sync(write_samples(d, s.index, s.files, 1), s.index), s.index)

\* a load that seeds whenever the index holds no prompt
load_index_sync_reseeding(d, t) ==
    IF d.index = NoFile THEN seed_sample_prompts(d, t)
    ELSE IF Len(d.index.prompts) = 0 THEN seed_sample_prompts(d, t)
    ELSE Ok(d, d.index)

load_index_sync(d, t) ==
    IF d.index = NoFile THEN seed_sample_prompts(d, t)
    ELSE IF Len(d.index.prompts) = 0 /\ ~d.index.seeded THEN seed_sample_prompts(d, t)
    ELSE Ok(d, d.index)

get_prompt_sync(d, id, t) ==
    LET l == load_index_sync(d, t)
        i == position(l.val.prompts, id)
    IN  IF i = 0 THEN Err(l.d, "NotFound")
        ELSE Ok(l.d, Prompt(l.val.prompts[i],
                            read_prompt_content(l.d, l.val.prompts[i].folder,
                                                l.val.prompts[i].filename)))

----------------------------------------------------------------------------
(* LocalDataStore: the synchronous operations used by SyncService *)

\* an update that adds the entry instead of replacing it
replace_at_appending(prompts, i, m) == Append(prompts, m)

\* index.prompts[idx] = updated
replace_at(prompts, i, m) == [prompts EXCEPT ![i] = m]

push(s, x) == Append(s, x)

\* an update that keeps the stored name
save_prompt_sync_keeps_name(d, prompt, t, uuid) ==
    LET l == load_index_sync(d, t)
        index == l.val
        existing_idx == position(index.prompts, prompt.metadata.id)
        updated == [prompt.metadata EXCEPT !.updated = t, !.last_used = t,
                                           !.name = index.prompts[existing_idx].name]
        id == IF prompt.metadata.id = "" THEN uuid ELSE prompt.metadata.id
        filename == IF prompt.metadata.filename = ""
                    THEN slugify(prompt.metadata.name) \o ".md"
                    ELSE prompt.metadata.filename
        new_metadata == Described(
                            Metadata(id, prompt.metadata.name, prompt.metadata.folder,
                                     filename, 0, t, t, t),
                            prompt.metadata.description, prompt.metadata.icon,
                            prompt.metadata.color)
        metadata == IF existing_idx # 0 THEN updated ELSE new_metadata
        index2 == IF existing_idx # 0
                  THEN [index EXCEPT !.prompts = replace_at(@, existing_idx, updated)]
                  ELSE [index EXCEPT
                          !.folders = IF contains(@, new_metadata.folder) THEN @
                                      ELSE push(@, new_metadata.folder),
                          !.prompts = push(@, new_metadata)]
        d2 == write_prompt_content(l.d, metadata.folder, metadata.filename, prompt.content)
    IN  IF metadata.filename # ""
        THEN Ok(save_index_sync(d2, index2), metadata)
        ELSE Err([l.d EXCEPT !.dirs = @ \cup {metadata.folder}], "IoError")

\* fs::write(folder_path.join(filename), ..) fails on the folder itself
writable(filename) == filename # ""

\* a save that persists the index before it writes the content
save_prompt_sync_index_first(d, prompt, t, uuid) ==
    LET l == load_index_sync(d, t)
        index == l.val
        existing_idx == position(index.prompts, prompt.metadata.id)
        updated == [prompt.metadata EXCEPT !.updated = t, !.last_used = t]
        id == IF prompt.metadata.id = "" THEN uuid ELSE prompt.metadata.id
        filename == IF prompt.metadata.filename = ""
                    THEN slugify(prompt.metadata.name) \o ".md"
                    ELSE prompt.metadata.filename
        new_metadata == Described(
                            Metadata(id, prompt.metadata.name, prompt.metadata.folder,
                                     filename, 0, t, t, t),
                            prompt.metadata.description, prompt.metadata.icon,
                            prompt.metadata.color)
        metadata == IF existing_idx # 0 THEN updated ELSE new_metadata
        index2 == IF existing_idx # 0
                  THEN [index EXCEPT !.prompts = replace_at(@, existing_idx, updated)]
                  ELSE [index EXCEPT
                          !.folders = IF contains(@, new_metadata.folder) THEN @
                                      ELSE push(@, new_metadata.folder),
                          !.prompts = push(@, new_metadata)]
        d1 == save_index_sync(l.d, index2)
    IN  IF writable(metadata.filename)
        THEN Ok(write_prompt_content(d1, metadata.folder, metadata.filename,
                                     prompt.content), metadata)
        ELSE Err([d1 EXCEPT !.dirs = @ \cup {metadata.folder}], "IoError")

save_prompt_sync(d, prompt, t, uuid) ==
    LET l == load_index_sync(d, t)
        index == l.val
        existing_idx == position(index.prompts, prompt.metadata.id)
        updated == [prompt.metadata EXCEPT !.updated = t, !.last_used = t]
        id == IF prompt.metadata.id = "" THEN uuid ELSE prompt.metadata.id
        filename == IF prompt.metadata.filename = ""
                    THEN slugify(prompt.metadata.name) \o ".md"
                    ELSE prompt.metadata.filename
        new_metadata == Described(
                            Metadata(id, prompt.metadata.name, prompt.metadata.folder,
                                     filename, 0, t, t, t),
                            prompt.metadata.description, prompt.metadata.icon,
                            prompt.metadata.color)
        metadata == IF existing_idx # 0 THEN updated ELSE new_metadata
        index2 == IF existing_idx # 0
                  THEN [index EXCEPT !.prompts = replace_at(@, existing_idx, updated)]
                  ELSE [index EXCEPT
                          !.folders = IF contains(@, new_metadata.folder) THEN @
                                      ELSE push(@, new_metadata.folder),
                          !.prompts = push(@, new_metadata)]
        d2 == write_prompt_content(l.d, metadata.folder, metadata.filename, prompt.content)
    IN  IF writable(metadata.filename)
        THEN Ok(save_index_sync(d2, index2), metadata)
        ELSE Err([l.d EXCEPT !.dirs = @ \cup {metadata.folder}], "IoError")

\* a delete that treats an id the index does not hold as already deleted
delete_prompt_sync_lenient(d, id, t) ==
    LET l == load_index_sync(d, t)
        index == l.val
        idx == position(index.prompts, id)
        metadata == index.prompts[idx]
        index2 == [index EXCEPT !.prompts = remove(@, idx)]
    IN  IF idx = 0 THEN Ok(save_index_sync(l.d, index), <<>>)
        ELSE Ok(save_index_sync(
                    delete_prompt_content(l.d, metadata.folder, metadata.filename),
                    index2), <<>>)

delete_prompt_sync(d, id, t) ==
    LET l == load_index_sync(d, t)
        index == l.val
        idx == position(index.prompts, id)
        metadata == index.prompts[idx]
        index2 == [index EXCEPT !.prompts = remove(@, idx)]
    IN  IF idx = 0 THEN Err(l.d, "NotFound")
        ELSE Ok(save_index_sync(
                    delete_prompt_content(l.d, metadata.folder, metadata.filename),
                    index2), <<>>)

\* an add_folder that takes the name as typed
add_folder_sync_verbatim(d, name, t) ==
    LET l == load_index_sync(d, t)
        index == l.val
        folder_name == name
    IN  IF folder_name = "" THEN Err(l.d, "InvalidInput")
        ELSE IF contains(index.folders, folder_name) THEN Err(l.d, "AlreadyExists")
        ELSE Ok(save_index_sync([l.d EXCEPT !.dirs = @ \cup {folder_name}],
                                [index EXCEPT !.folders = push(@, folder_name)]), <<>>)

add_folder_sync(d, name, t) ==
    LET l == load_index_sync(d, t)
        index == l.val
        folder_name == normalize(name)
    IN  IF folder_name = "" THEN Err(l.d, "InvalidInput")
        ELSE IF contains(index.folders, folder_name) THEN Err(l.d, "AlreadyExists")
        ELSE Ok(save_index_sync([l.d EXCEPT !.dirs = @ \cup {folder_name}],
                                [index EXCEPT !.folders = push(@, folder_name)]), <<>>)

\* whether the directory prompts/<folder> holds any file
dir_has_files(d, folder) == \E k \in DOMAIN d.files : k[1] = folder

\* fs::rename(old_path, new_path) of a directory: every file below it moves
rename_dir(d, old, new) ==
    [d EXCEPT
       !.dirs = (@ \ {old}) \cup {new},
       !.files = [k \in {IF x[1] = old THEN Key(new, x[2]) ELSE x : x \in DOMAIN @}
                    |-> IF k[1] = new THEN @[Key(old, k[2])] ELSE @[k]]]

\* for prompt in &mut index.prompts { if prompt.folder == from { prompt.folder = to } }
reassign(prompts, from, to) ==
    [i \in DOMAIN prompts |->
        IF prompts[i].folder = from THEN [prompts[i] EXCEPT !.folder = to]
        ELSE prompts[i]]

\* index.folders[pos] = new_folder at the first position of old_folder
rename_in(folders, old, new) ==
    LET pos == CHOOSE i \in 1..Len(folders) :
                   folders[i] = old /\ \A j \in 1..(i - 1) : folders[j] # old
    IN  [folders EXCEPT ![pos] = new]

rename_folder_sync(d, old_name, new_name, t) ==
    LET l == load_index_sync(d, t)
        index == l.val
        old_folder == normalize(old_name)
        new_folder == normalize(new_name)
        index2 == [index EXCEPT !.prompts = reassign(@, old_folder, new_folder),
                                !.folders = rename_in(@, old_folder, new_folder)]
    IN  IF new_folder = "" THEN Err(l.d, "InvalidInput")
        ELSE IF ~contains(index.folders, old_folder) THEN Err(l.d, "NotFound")
        ELSE IF contains(index.folders, new_folder) THEN Err(l.d, "AlreadyExists")
        ELSE IF old_folder \in l.d.dirs
             THEN (IF dir_has_files(l.d, new_folder)
                   THEN Err(l.d, "IoError")
                   ELSE Ok(save_index_sync(rename_dir(l.d, old_folder, new_folder),
                                           index2), <<>>))
             ELSE Ok(save_index_sync(l.d, index2), <<>>)

\* fs::rename(old_file, new_file) of one file, replacing new_file
rename_file(d, from, to) ==
    [d EXCEPT !.files = Drop(Put(@, to, @[from]), {from})]

\* the move loop of delete_folder_sync over index.prompts, from position i
RECURSIVE move_to_uncategorized(_, _, _, _)
move_to_uncategorized(d, prompts, folder_name, i) ==
    IF i > Len(prompts) THEN d
    ELSE IF prompts[i].folder = folder_name
              /\ file_exists(d, folder_name, prompts[i].filename)
         THEN move_to_uncategorized(
                  rename_file(d, Key(folder_name, prompts[i].filename),
                                 Key("uncategorized", prompts[i].filename)),
                  prompts, folder_name, i + 1)
         ELSE move_to_uncategorized(d, prompts, folder_name, i + 1)

\* fs::remove_dir_all(folder_path)
remove_dir_all(d, folder) ==
    [d EXCEPT !.dirs = @ \ {folder},
              !.files = Drop(@, {k \in DOMAIN @ : k[1] = folder})]

retain_not(folders, x) == SelectSeq(folders, LAMBDA f : f # x)

\* a delete_folder without the check for the reserved folder
delete_folder_sync_unprotected(d, name, t) ==
    LET l == load_index_sync(d, t)
        index == l.val
        folder_name == normalize(name)
        d1 == [l.d EXCEPT !.dirs = @ \cup {"uncategorized"}]
        d2 == move_to_uncategorized(d1, index.prompts, folder_name, 1)
        d3 == IF folder_name \in d2.dirs THEN remove_dir_all(d2, folder_name) ELSE d2
        index2 == [index EXCEPT !.prompts = reassign(@, folder_name, "uncategorized"),
                                !.folders = retain_not(@, folder_name)]
    IN  IF ~contains(index.folders, folder_name) THEN Err(l.d, "NotFound")
        ELSE Ok(save_index_sync(d3, index2), <<>>)

delete_folder_sync(d, name, t) ==
    LET l == load_index_sync(d, t)
        index == l.val
        folder_name == normalize(name)
        d1 == [l.d EXCEPT !.dirs = @ \cup {"uncategorized"}]
        d2 == move_to_uncategorized(d1, index.prompts, folder_name, 1)
        d3 == IF folder_name \in d2.dirs THEN remove_dir_all(d2, folder_name) ELSE d2
        index2 == [index EXCEPT !.prompts = reassign(@, folder_name, "uncategorized"),
                                !.folders = retain_not(@, folder_name)]
    IN  IF folder_name = "uncategorized" THEN Err(l.d, "InvalidInput")
        ELSE IF ~contains(index.folders, folder_name) THEN Err(l.d, "NotFound")
        ELSE Ok(save_index_sync(d3, index2), <<>>)

record_usage_sync(d, id, t) ==
    LET l == load_index_sync(d, t)
        index == l.val
        i == position(index.prompts, id)
        index2 == [index EXCEPT !.prompts[i].use_count = @ + 1,
                                !.prompts[i].last_used = t]
    IN  IF i = 0 THEN Err(l.d, "NotFound")
        ELSE Ok(save_index_sync(l.d, index2), <<>>)

\* a migration that copies index.json and leaves the prompts directory behind
migrate_from_anonymous_index_only(store, d, anon) ==
    IF store.user_id = None THEN Ok(d, FALSE)
    ELSE IF d.index # NoFile THEN Ok(d, FALSE)
    ELSE IF anon.index = NoFile THEN Ok(d, FALSE)
    ELSE Ok([d EXCEPT !.index = anon.index], TRUE)

\* a migration without the check for an existing index of the user
migrate_from_anonymous_overwrite(store, d, anon) ==
    IF store.user_id = None THEN Ok(d, FALSE)
    ELSE IF anon.index = NoFile THEN Ok(d, FALSE)
    ELSE Ok([d EXCEPT !.index = anon.index,
                      !.dirs = @ \cup anon.dirs,
                      !.files = [k \in DOMAIN @ \cup DOMAIN anon.files |->
                                   IF k \in DOMAIN anon.files THEN anon.files[k]
                                   ELSE @[k]]],
            TRUE)

\* LocalDataStore::migrate_from_anonymous: d is the user's partition, anon the
\* anonymous one; val is the returned bool
migrate_from_anonymous(store, d, anon) ==
    IF store.user_id = None THEN Ok(d, FALSE)
    ELSE IF d.index # NoFile THEN Ok(d, FALSE)
    ELSE IF anon.index = NoFile THEN Ok(d, FALSE)
    ELSE Ok([d EXCEPT !.index = anon.index,
                      !.dirs = @ \cup anon.dirs,
                      !.files = [k \in DOMAIN @ \cup DOMAIN anon.files |->
                                   IF k \in DOMAIN anon.files THEN anon.files[k]
                                   ELSE @[k]]],
            TRUE)

----------------------------------------------------------------------------
(* FirestoreClient: the typed documents and the remote store *)

StringValue(v) == [t |-> "stringValue", v |-> v]
IntegerValue(v) == [t |-> "integerValue", v |-> v]
ArrayValue(v) == [t |-> "arrayValue", v |-> v]

\* u32::to_string and str::parse::<u32>().unwrap_or(0), on decimal digits
digit_of(c) == (CHOOSE i \in 1..Len(Digits) : CharAt(Digits, i) = c) - 1

RECURSIVE parse_digits(_, _)
parse_digits(s, acc) ==
    IF Len(s) = 0 THEN acc
    ELSE parse_digits(SubSeq(s, 2, Len(s)), acc * 10 + digit_of(CharAt(s, 1)))

parse_u32(s) ==
    IF Len(s) > 0 /\ \A i \in 1..Len(s) : Contains(Digits, CharAt(s, i))
    THEN parse_digits(s, 0)
    ELSE 0

\* timestamps are written as strings on the wire
ts_to_string(t) == ToString(t)
ts_of_string(s) == parse_u32(s)

\* a document that carries the required fields and lastUsed only
from_prompt_required_only(prompt) ==
    LET m == prompt.metadata
        base == [id |-> StringValue(m.id), name |-> StringValue(m.name),
                 folder |-> StringValue(m.folder),
                 filename |-> StringValue(m.filename),
                 useCount |-> IntegerValue(ToString(m.use_count)),
                 created |-> StringValue(ts_to_string(m.created)),
                 updated |-> StringValue(ts_to_string(m.updated)),
                 content |-> StringValue(prompt.content)]
    IN  IF m.last_used # Never
        THEN base @@ [lastUsed |-> StringValue(ts_to_string(m.last_used))]
        ELSE base

\* fields.insert(key, StringValue(..)) under if let Some(..)
insert_some(fields, key, present, v) ==
    IF present THEN [k \in {key} |-> StringValue(v)] @@ fields ELSE fields

from_prompt(prompt) ==
    LET m == prompt.metadata
        base == [id |-> StringValue(m.id), name |-> StringValue(m.name),
                 folder |-> StringValue(m.folder),
                 description |-> StringValue(m.description),
                 filename |-> StringValue(m.filename),
                 useCount |-> IntegerValue(ToString(m.use_count)),
                 created |-> StringValue(ts_to_string(m.created)),
                 updated |-> StringValue(ts_to_string(m.updated)),
                 content |-> StringValue(prompt.content)]
    IN  insert_some(
            insert_some(
                insert_some(base, "lastUsed", m.last_used # Never,
                            IF m.last_used # Never THEN ts_to_string(m.last_used) ELSE ""),
                "icon", m.icon # None, m.icon),
            "color", m.color # None, m.color)

has_string(doc, key) == key \in DOMAIN doc /\ doc[key].t = "stringValue"

\* get_optional_string(key), None when absent or not a string
get_optional_string(doc, key) == IF has_string(doc, key) THEN doc[key].v ELSE None

\* FirestoreDocument::to_prompt: ok is FALSE when a required field is missing
to_prompt(doc) ==
    IF \A k \in {"id", "name", "folder", "filename", "created", "updated"} :
           has_string(doc, k)
    THEN [ok |-> TRUE,
          val |-> Prompt(
              Described(
                  Metadata(doc.id.v, doc.name.v, doc.folder.v, doc.filename.v,
                           IF "useCount" \in DOMAIN doc /\ doc.useCount.t = "integerValue"
                           THEN parse_u32(doc.useCount.v) ELSE 0,
                           IF has_string(doc, "lastUsed") THEN ts_of_string(doc.lastUsed.v)
                           ELSE Never,
                           ts_of_string(doc.created.v), ts_of_string(doc.updated.v)),
                  IF has_string(doc, "description") THEN doc.description.v ELSE "",
                  get_optional_string(doc, "icon"),
                  get_optional_string(doc, "color")),
              IF has_string(doc, "content") THEN doc.content.v ELSE "")]
    ELSE [ok |-> FALSE, val |-> <<>>]

MapValue(v) == [t |-> "mapValue", v |-> v]

\* Option<HashMap<String, FolderMetadata>>: None, or Some of a map
NoFolderMeta == [present |-> FALSE]
SomeFolderMeta(map) == [present |-> TRUE, map |-> map]

FolderMetadata(name, icon, color) == [name |-> name, icon |-> icon, color |-> color]

UserMeta(folders, folder_meta) == [folders |-> folders, folder_meta |-> folder_meta]

\* #[derive(Default)] on UserMeta: Vec::new() and None
UserMetaDefault == UserMeta(<<>>, NoFolderMeta)

\* the UserMeta built from an index; the index is modelled without folder_meta
meta_of(index) == UserMeta(index.folders, NoFolderMeta)

\* the fields of one FolderMetadata
folder_meta_fields(fm) ==
    insert_some(insert_some([name |-> StringValue(fm.name)],
                            "icon", fm.icon # None, fm.icon),
                "color", fm.color # None, fm.color)

from_user_meta(meta) ==
    LET fields == [folders |->
                      ArrayValue([i \in DOMAIN meta.folders |->
                                     StringValue(meta.folders[i])])]
    IN  IF meta.folder_meta.present
        THEN fields @@ [folderMeta |->
                           MapValue([name \in DOMAIN meta.folder_meta.map |->
                                        MapValue(folder_meta_fields(
                                            meta.folder_meta.map[name]))])]
        ELSE fields

\* a to_user_meta that reads the folder list only
to_user_meta_folders_only(doc) ==
    LET vals == IF "folders" \in DOMAIN doc /\ doc.folders.t = "arrayValue"
                THEN doc.folders.v ELSE <<>>
        strs == SelectSeq(vals, LAMBDA x : x.t = "stringValue")
        folders == [i \in DOMAIN strs |-> strs[i].v]
    IN  UserMeta(IF Len(folders) = 0 THEN <<"uncategorized">> ELSE folders,
                 NoFolderMeta)

to_user_meta(doc) ==
    LET vals == IF "folders" \in DOMAIN doc /\ doc.folders.t = "arrayValue"
                THEN doc.folders.v ELSE <<>>
        strs == SelectSeq(vals, LAMBDA x : x.t = "stringValue")
        folders == [i \in DOMAIN strs |-> strs[i].v]
        maps == {name \in DOMAIN doc.folderMeta.v :
                    doc.folderMeta.v[name].t = "mapValue"}
        folder_meta ==
            IF "folderMeta" \in DOMAIN doc /\ doc.folderMeta.t = "mapValue"
            THEN SomeFolderMeta(
                     [name \in maps |->
                         LET fm == doc.folderMeta.v[name].v
                         IN  FolderMetadata(
                                 IF has_string(fm, "name") THEN fm.name.v ELSE name,
                                 get_optional_string(fm, "icon"),
                                 get_optional_string(fm, "color"))])
            ELSE NoFolderMeta
    IN  UserMeta(IF Len(folders) = 0 THEN <<"uncategorized">> ELSE folders,
                 folder_meta)

\* The remote store of one user: the user document (the sequence is empty or
\* holds it) and the documents of the prompts collection.
EmptyRemote == [meta |-> <<>>, prompts |-> <<>>]

doc_position(docs, id) ==
    IF \E i \in 1..Len(docs) : docs[i].id.v = id
    THEN CHOOSE i \in 1..Len(docs) : docs[i].id.v = id
    ELSE 0

\* PATCH users/{uid}/prompts/{id}
remote_save_prompt(r, prompt) ==
    LET doc == from_prompt(prompt)
        i == doc_position(r.prompts, prompt.metadata.id)
    IN  [r EXCEPT !.prompts = IF i = 0 THEN Append(@, doc) ELSE [@ EXCEPT ![i] = doc]]

\* DELETE users/{uid}/prompts/{id}
remote_delete_prompt(r, id) ==
    [r EXCEPT !.prompts = SelectSeq(@, LAMBDA doc : doc.id.v # id)]

\* PATCH users/{uid}
remote_save_meta(r, meta) == [r EXCEPT !.meta = <<from_user_meta(meta)>>]

\* FirestoreClient::fetch_meta on a success or not-found response
fetch_meta(r) == IF Len(r.meta) = 0 THEN UserMetaDefault ELSE to_user_meta(r.meta[1])

\* FirestoreClient::fetch_all_prompts on a success or not-found response
fetch_all_prompts(r) ==
    LET parsed == [i \in DOMAIN r.prompts |-> to_prompt(r.prompts[i])]
        kept == SelectSeq(parsed, LAMBDA x : x.ok)
    IN  [i \in DOMAIN kept |-> kept[i].val]

\* FirestoreClient::download_all, both fetches having succeeded
download_all(r) ==
    LET meta == fetch_meta(r)
        prompts == fetch_all_prompts(r)
    IN  [index |-> PromptIndex([i \in DOMAIN prompts |-> prompts[i].metadata],
                               meta.folders, TRUE),
         prompts |-> prompts]

----------------------------------------------------------------------------
(* SyncService: the state behind the lock *)

SyncState(local_store, user_id, id_token, sync_enabled) ==
    [local_store |-> local_store, user_id |-> user_id, id_token |-> id_token,
     sync_enabled |-> sync_enabled]

\* SyncService::new
new == SyncState(new_store, None, None, FALSE)

is_authenticated(s) == s.user_id # None

current_user_id(s) == s.user_id

\* a set_auth that stays on the store it found
set_auth_same_store(s, user_id, id_token) ==
    [s EXCEPT !.user_id = user_id, !.id_token = id_token, !.sync_enabled = TRUE]

\* the assignments of set_auth to the state
set_auth(s, user_id, id_token) ==
    [s EXCEPT !.local_store = for_user(user_id), !.user_id = user_id,
              !.id_token = id_token, !.sync_enabled = TRUE]

\* the migration set_auth and new_with_restored_auth run on the disk
migrate_disk(dsk, user_id) ==
    LET store == for_user(user_id)
    IN  [dsk EXCEPT ![store.data_dir] =
             migrate_from_anonymous(store, @, dsk[new_store.data_dir]).d]

\* a clear_auth that forgets the user id
clear_auth_keeps_user(s) ==
    [s EXCEPT !.local_store = new_store, !.id_token = None, !.sync_enabled = FALSE]

\* a clear_auth that stays on the partition of the user
clear_auth_keeps_store(s) ==
    [s EXCEPT !.user_id = None, !.id_token = None, !.sync_enabled = FALSE]

clear_auth(s) ==
    [s EXCEPT !.local_store = new_store, !.user_id = None, !.id_token = None,
              !.sync_enabled = FALSE]

\* an update_token that also turns sync on
update_token_enables(s, id_token) ==
    [s EXCEPT !.id_token = id_token, !.sync_enabled = TRUE]

update_token(s, id_token) == [s EXCEPT !.id_token = id_token]

\* new_with_restored_auth: session is None or <<user_id, id_token>>
NoSession == <<>>

new_with_restored_auth(session) ==
    IF session = NoSession THEN new
    ELSE SyncState(for_user(session[1]), session[1], session[2], TRUE)

\* a get_sync_context that hands out whatever the state holds
get_sync_context_unchecked(s) == <<s.user_id, s.id_token>>

\* get_sync_context: <<>> stands for None, else <<user_id, id_token>>
NoCtx == <<>>

get_sync_context(s) ==
    IF ~s.sync_enabled THEN NoCtx
    ELSE IF s.user_id = None THEN NoCtx
    ELSE IF s.id_token = None THEN NoCtx
    ELSE <<s.user_id, s.id_token>>

----------------------------------------------------------------------------
(* The running operation of the orchestrator.                               *)
(*   op    the DataStore or sync method                                     *)
(*   pc    where it stands: "reload", "context", "loadall", "upload",       *)
(*         "download", "write", or "done"                                   *)
(*   part  the data directory its local step acted on                       *)
(*   local outcome of the local step: "none", "ok" or "err"                 *)
(*   data  what it carries to its next step                                 *)
(*   calls the remote calls it issued, in order                             *)
(*   res   "pending", "Ok" or the error returned to the caller              *)

Task(op, pc, part, local, data, calls, res) ==
    [op |-> op, pc |-> pc, part |-> part, local |-> local, data |-> data,
     calls |-> calls, res |-> res]

Idle == Task("idle", "done", "", "none", <<>>, <<>>, "none")

Call(kind, ctx, outcome) ==
    [kind |-> kind, user |-> ctx[1], token |-> ctx[2], outcome |-> outcome]

\* a response: success, a non-success status, or no response at all
Outcomes == {"ok", "err", "net"}

MutatingOps == {"save_prompt", "delete_prompt", "add_folder", "rename_folder",
                "delete_folder", "record_usage", "save_index"}

active == state.local_store.data_dir

NoLast == [op |-> "none"]

\* An operation that has just returned is observed before anything else
\* happens: Return takes its record away.
Observed == (task.op # "idle" /\ task.pc = "done") \/ last # NoLast

\* no operation is running, and another one may start
Ready == task.op = "idle" /\ ~Observed /\ ops < MaxOps

\* the running operation stands at pc
At(pc) == task.pc = pc /\ ~Observed

----------------------------------------------------------------------------
(* Inputs *)

InputFolders == {"work"}
InputNames == {"Code Review"}
InputContents == {"x"}
InputAddFolders == {" Work", ""}
InputRenames == {<<"Development", "Dev">>}
InputDeleteFolders == {"Development", "Uncategorized"}

IdsOf(index) == {index.prompts[i].id : i \in DOMAIN index.prompts}

InputIds == {"code-review"} \cup Uuids

\* ids in use on the disk or in the remote store
UsedIds ==
    UNION {IF disk[dir].index = NoFile THEN {} ELSE IdsOf(disk[dir].index)
             : dir \in DataDirs}
    \cup UNION {{remote[u].prompts[i].id.v : i \in DOMAIN remote[u].prompts} : u \in Users}

\* the prompts a caller passes to save_prompt: a new one (empty id, empty
\* filename), or one it read from the index with its content edited
NewPrompts ==
    {Prompt(Metadata("", n, f, "", 0, Never, 0, 0), c) :
        n \in InputNames, f \in InputFolders, c \in InputContents}

EditedPrompts ==
    IF disk[active].index = NoFile THEN {}
    ELSE {Prompt(disk[active].index.prompts[i], c) :
            i \in DOMAIN disk[active].index.prompts, c \in InputContents}

----------------------------------------------------------------------------
(* DataStore for SyncService: the local step of each mutating operation *)

\* a local step whose error is dropped
after_local_unchecked(r, next) == next

\* the ? after the local step r: an error returns at once, else on to next
after_local(r, next) == IF r.ok THEN next ELSE "done"

\* the operation after its local step r
AfterLocal(op, r, next, data) ==
    /\ disk' = [disk EXCEPT ![active] = r.d]
    /\ task' = Task(op, after_local(r, next), active,
                    IF r.ok THEN "ok" ELSE "err",
                    IF r.ok THEN data ELSE <<>>, <<>>,
                    IF r.ok THEN "pending" ELSE r.err)
    /\ ops' = ops + 1
    /\ UNCHANGED <<state, remote, now, last>>

SavePrompt(prompt, uuid) ==
    /\ Ready
    /\ LET r == save_prompt_sync(disk[active], prompt, now, uuid)
       IN  AfterLocal("save_prompt", r, "context",
                      IF r.ok THEN Prompt(r.val, prompt.content) ELSE <<>>)

DeletePrompt(id) ==
    /\ Ready
    /\ AfterLocal("delete_prompt", delete_prompt_sync(disk[active], id, now),
                  "context", id)

AddFolder(name) ==
    /\ Ready
    /\ AfterLocal("add_folder", add_folder_sync(disk[active], name, now),
                  "reload", <<>>)

RenameFolder(old_name, new_name) ==
    /\ Ready
    /\ AfterLocal("rename_folder",
                  rename_folder_sync(disk[active], old_name, new_name, now),
                  "reload", <<>>)

DeleteFolder(name) ==
    /\ Ready
    /\ AfterLocal("delete_folder", delete_folder_sync(disk[active], name, now),
                  "reload", <<>>)

UseCountOf(d, id) ==
    IF d.index = NoFile \/ position(d.index.prompts, id) = 0 THEN 0
    ELSE d.index.prompts[position(d.index.prompts, id)].use_count

RecordUsage(id) ==
    /\ Ready
    /\ UseCountOf(disk[active], id) < MaxUse
    /\ AfterLocal("record_usage", record_usage_sync(disk[active], id, now),
                  "reload", id)

\* save_index with the index the caller read from the active partition
SaveIndex ==
    /\ Ready
    /\ disk[active].index # NoFile
    /\ AfterLocal("save_index",
                  Ok(save_index_sync(disk[active], disk[active].index), <<>>),
                  "context", disk[active].index)

\* get_index: reads, and seeds the active partition when load does
GetIndex ==
    /\ Ready
    /\ disk' = [disk EXCEPT ![active] = load_index_sync(@, now).d]
    /\ ops' = ops + 1
    /\ UNCHANGED <<state, remote, task, now, last>>

\* the second lock acquisition of the folder operations (get_index) and of
\* record_usage (get_prompt), on the store that is active by then
Reload ==
    /\ At("reload")
    /\ IF task.op = "record_usage"
       THEN LET r == get_prompt_sync(disk[active], task.data, now)
            IN  /\ disk' = [disk EXCEPT ![active] = r.d]
                /\ task' = IF r.ok
                           THEN [task EXCEPT !.pc = "context", !.data = r.val]
                           ELSE [task EXCEPT !.pc = "done", !.res = "Ok", !.data = <<>>]
       ELSE LET r == load_index_sync(disk[active], now)
            IN  /\ disk' = [disk EXCEPT ![active] = r.d]
                /\ task' = [task EXCEPT !.pc = "context", !.data = r.val]
    /\ UNCHANGED <<state, remote, now, last, ops>>

\* what the mirror call of an operation does to the remote store of the user
mirror_kind(op) ==
    IF op \in {"save_prompt", "record_usage"} THEN "save_prompt"
    ELSE IF op = "delete_prompt" THEN "delete_prompt"
    ELSE "save_meta"

mirror_effect(r, op, data) ==
    IF mirror_kind(op) = "save_prompt" THEN remote_save_prompt(r, data)
    ELSE IF mirror_kind(op) = "delete_prompt" THEN remote_delete_prompt(r, data)
    ELSE remote_save_meta(r, meta_of(data))

\* a mirror call whose failure is returned with ?
mirror_result_propagated(outcome) == IF outcome = "ok" THEN "Ok" ELSE "RemoteError"

\* let _ = self.sync_..._to_firestore(..).await; Ok(..)
mirror_result(outcome) == "Ok"

\* sync_prompt_to_firestore / delete_prompt_from_firestore /
\* sync_meta_to_firestore, and the return of the operation
Mirror(outcome) ==
    /\ At("context")
    /\ LET ctx == get_sync_context(state)
       IN  IF ctx = NoCtx
           THEN /\ task' = [task EXCEPT !.pc = "done", !.res = "Ok", !.data = <<>>]
                /\ UNCHANGED remote
           ELSE /\ task' = [task EXCEPT
                              !.pc = "done", !.res = mirror_result(outcome),
                              !.data = <<>>,
                              !.calls = Append(@, Call(mirror_kind(task.op), ctx, outcome))]
                /\ remote' = IF outcome = "ok"
                             THEN [remote EXCEPT ![ctx[1]] =
                                      mirror_effect(@, task.op, task.data)]
                             ELSE remote
    /\ UNCHANGED <<state, disk, now, last, ops>>

----------------------------------------------------------------------------
(* sync_to_firestore *)

\* the Prompt list load_all_prompts_sync builds from index, on partition d:
\* ok is FALSE when an id of index is not found
RECURSIVE load_all_prompts_sync(_, _, _, _, _)
load_all_prompts_sync(d, index, t, i, acc) ==
    IF i > Len(index.prompts) THEN Ok(d, acc)
    ELSE LET r == get_prompt_sync(d, index.prompts[i].id, t)
         IN  IF r.ok THEN load_all_prompts_sync(r.d, index, t, i + 1, Append(acc, r.val))
             ELSE Err(r.d, r.err)

\* a sync_to_firestore without its safety check
accept_empty(index) == FALSE

\* SAFETY: Never upload empty data
refuse_empty(index) == Len(index.prompts) = 0

\* the first block of sync_to_firestore, and the refusal of an empty index
SyncToStart ==
    /\ Ready
    /\ IF state.user_id = None
       THEN /\ task' = Task("sync_to", "done", active, "none", <<>>, <<>>, "NotAuthenticated")
            /\ UNCHANGED disk
       ELSE IF state.id_token = None
       THEN /\ task' = Task("sync_to", "done", active, "none", <<>>, <<>>, "NoAuthToken")
            /\ UNCHANGED disk
       ELSE LET r == load_index_sync(disk[active], now)
                data == [user |-> state.user_id, token |-> state.id_token,
                         index |-> r.val, queue |-> <<>>]
            IN  /\ disk' = [disk EXCEPT ![active] = r.d]
                /\ task' = IF refuse_empty(r.val)
                           THEN Task("sync_to", "done", active, "ok", data, <<>>, "EmptyLocal")
                           ELSE Task("sync_to", "loadall", active, "ok", data, <<>>, "pending")
    /\ ops' = ops + 1
    /\ UNCHANGED <<state, remote, now, last>>

\* load_all_prompts_sync, under its own lock acquisition
SyncToLoadAll ==
    /\ At("loadall")
    /\ LET r == load_all_prompts_sync(disk[active], task.data.index, now, 1, <<>>)
       IN  /\ disk' = [disk EXCEPT ![active] = r.d]
           /\ task' = IF r.ok
                      THEN [task EXCEPT !.pc = "upload", !.data.queue = r.val]
                      ELSE [task EXCEPT !.pc = "done", !.res = r.err]
    /\ UNCHANGED <<state, remote, now, last, ops>>

\* an upload_all that goes on to the next call after a failure
SyncToUpload_continuing(outcome) ==
    /\ At("upload")
    /\ LET ctx == <<task.data.user, task.data.token>>
           first == Len(task.calls) = 0
           kind == IF first THEN "save_meta" ELSE "save_prompt"
           queue == IF first THEN task.data.queue ELSE Tail(task.data.queue)
       IN  /\ remote' =
                 IF outcome # "ok" THEN remote
                 ELSE IF first
                 THEN [remote EXCEPT ![ctx[1]] =
                          remote_save_meta(@, meta_of(task.data.index))]
                 ELSE [remote EXCEPT ![ctx[1]] =
                          remote_save_prompt(@, Head(task.data.queue))]
           /\ task' = [task EXCEPT
                         !.calls = Append(@, Call(kind, ctx, outcome)),
                         !.data.queue = queue,
                         !.pc = IF Len(queue) = 0 THEN "done" ELSE "upload",
                         !.res = IF outcome # "ok" THEN "RemoteError"
                                 ELSE IF Len(queue) = 0 THEN "Ok" ELSE "pending"]
    /\ UNCHANGED <<state, disk, now, last, ops>>

\* FirestoreClient::upload_all, one call at a time: save_meta first, then
\* save_prompt for the head of the queue; the first failure aborts
SyncToUpload(outcome) ==
    /\ At("upload")
    /\ LET ctx == <<task.data.user, task.data.token>>
           first == Len(task.calls) = 0
           kind == IF first THEN "save_meta" ELSE "save_prompt"
           queue == IF first THEN task.data.queue ELSE Tail(task.data.queue)
       IN  /\ remote' =
                 IF outcome # "ok" THEN remote
                 ELSE IF first
                 THEN [remote EXCEPT ![ctx[1]] =
                          remote_save_meta(@, meta_of(task.data.index))]
                 ELSE [remote EXCEPT ![ctx[1]] =
                          remote_save_prompt(@, Head(task.data.queue))]
           /\ task' = [task EXCEPT
                         !.calls = Append(@, Call(kind, ctx, outcome)),
                         !.data.queue = queue,
                         !.pc = IF outcome # "ok" \/ Len(queue) = 0 THEN "done" ELSE "upload",
                         !.res = IF outcome # "ok" THEN "RemoteError"
                                 ELSE IF Len(queue) = 0 THEN "Ok" ELSE "pending"]
    /\ UNCHANGED <<state, disk, now, last, ops>>

----------------------------------------------------------------------------
(* sync_from_firestore *)

\* a first block that counts the local prompts before it looks at the credentials
SyncFromStart_counting_first ==
    /\ Ready
    /\ LET r == load_index_sync(disk[active], now)
       IN  /\ disk' = [disk EXCEPT ![active] = r.d]
           /\ task' =
                IF state.user_id = None
                THEN Task("sync_from", "done", active, "none", <<>>, <<>>, "NotAuthenticated")
                ELSE IF state.id_token = None
                THEN Task("sync_from", "done", active, "none", <<>>, <<>>, "NoAuthToken")
                ELSE Task("sync_from", "download", active, "ok",
                          [user |-> state.user_id, token |-> state.id_token,
                           local_prompt_count |-> Len(r.val.prompts),
                           index |-> <<>>, prompts |-> <<>>, skipped |-> FALSE],
                          <<>>, "pending")
    /\ ops' = ops + 1
    /\ UNCHANGED <<state, remote, now, last>>

\* the first block of sync_from_firestore: credentials and local prompt count
SyncFromStart ==
    /\ Ready
    /\ IF state.user_id = None
       THEN /\ task' = Task("sync_from", "done", active, "none", <<>>, <<>>, "NotAuthenticated")
            /\ UNCHANGED disk
       ELSE IF state.id_token = None
       THEN /\ task' = Task("sync_from", "done", active, "none", <<>>, <<>>, "NoAuthToken")
            /\ UNCHANGED disk
       ELSE LET r == load_index_sync(disk[active], now)
            IN  /\ disk' = [disk EXCEPT ![active] = r.d]
                /\ task' = Task("sync_from", "download", active, "ok",
                                [user |-> state.user_id, token |-> state.id_token,
                                 local_prompt_count |-> Len(r.val.prompts),
                                 index |-> <<>>, prompts |-> <<>>, skipped |-> FALSE],
                                <<>>, "pending")
    /\ ops' = ops + 1
    /\ UNCHANGED <<state, remote, now, last>>

\* a sync_from_firestore without its safety check
never_skip_download(index, local_prompt_count) == FALSE

\* the safety check of sync_from_firestore on the downloaded index
skip_download(index, local_prompt_count) ==
    Len(index.prompts) = 0 /\ local_prompt_count > 0

\* download_all (fetch_meta, then fetch_all_prompts) and the safety check
SyncFromDownload(meta_outcome, list_outcome) ==
    /\ At("download")
    /\ LET ctx == <<task.data.user, task.data.token>>
           dl == download_all(remote[ctx[1]])
           c1 == Call("fetch_meta", ctx, meta_outcome)
           c2 == Call("fetch_all_prompts", ctx, list_outcome)
       IN  task' =
             IF meta_outcome # "ok"
             THEN [task EXCEPT !.pc = "done", !.res = "RemoteError", !.calls = <<c1>>]
             ELSE IF list_outcome # "ok"
             THEN [task EXCEPT !.pc = "done", !.res = "RemoteError", !.calls = <<c1, c2>>]
             ELSE IF skip_download(dl.index, task.data.local_prompt_count)
             THEN [task EXCEPT !.pc = "done", !.res = "Ok", !.calls = <<c1, c2>>,
                               !.data.skipped = TRUE]
             ELSE [task EXCEPT !.pc = "write", !.calls = <<c1, c2>>,
                               !.data.index = dl.index, !.data.prompts = dl.prompts]
    /\ UNCHANGED <<state, disk, remote, now, last, ops>>

\* the write loop of sync_from_firestore
RECURSIVE write_downloaded(_, _, _)
write_downloaded(d, prompts, i) ==
    IF i > Len(prompts) THEN d
    ELSE write_downloaded(
             write_prompt_content(d, prompts[i].metadata.folder,
                                  prompts[i].metadata.filename, prompts[i].content),
             prompts, i + 1)

\* the last block of sync_from_firestore, on the store that is active by then
SyncFromWrite ==
    /\ At("write")
    /\ disk' = [disk EXCEPT ![active] =
                   write_downloaded(save_index_sync(@, task.data.index),
                                    task.data.prompts, 1)]
    /\ task' = [task EXCEPT !.pc = "done", !.res = "Ok"]
    /\ UNCHANGED <<state, remote, now, last, ops>>

----------------------------------------------------------------------------
(* Authentication, construction, time *)

\* last: the latest of set_auth, clear_auth, update_token and construction,
\* with what it found (user partition had an index, service was authenticated)
\* and what the migration returned
Last(op, user, had_index, was_auth, migrated) ==
    [op |-> op, user |-> user, had_index |-> had_index, was_auth |-> was_auth,
     migrated |-> migrated]

migrated(dsk, user_id) ==
    migrate_from_anonymous(for_user(user_id), dsk[for_user(user_id).data_dir],
                           dsk[new_store.data_dir]).val

SetAuth(user_id, id_token) ==
    /\ ~Observed
    /\ state' = set_auth(state, user_id, id_token)
    /\ disk' = migrate_disk(disk, user_id)
    /\ last' = Last("set_auth", user_id, disk[for_user(user_id).data_dir].index # NoFile,
                    is_authenticated(state), migrated(disk, user_id))
    /\ UNCHANGED <<remote, task, now, ops>>

ClearAuth ==
    /\ ~Observed
    /\ state' = clear_auth(state)
    /\ last' = Last("clear_auth", state.user_id, FALSE, is_authenticated(state), FALSE)
    /\ UNCHANGED <<disk, remote, task, now, ops>>

UpdateToken(id_token) ==
    /\ ~Observed
    /\ state' = update_token(state, id_token)
    /\ last' = Last("update_token", state.user_id, FALSE, is_authenticated(state), FALSE)
    /\ UNCHANGED <<disk, remote, task, now, ops>>

\* the process starts again: new_with_restored_auth on the session found in
\* the keychain; the operation that was running is gone with the old process
Restart(session) ==
    /\ ~Observed
    /\ state' = new_with_restored_auth(session)
    /\ disk' = IF session = NoSession THEN disk ELSE migrate_disk(disk, session[1])
    /\ task' = Idle
    /\ last' = IF session = NoSession
               THEN Last("new", None, FALSE, FALSE, FALSE)
               ELSE Last("restore", session[1],
                         disk[for_user(session[1]).data_dir].index # NoFile,
                         FALSE, migrated(disk, session[1]))
    /\ UNCHANGED <<remote, now, ops>>

\* the caller has the result
Return ==
    /\ Observed
    /\ task' = IF task.pc = "done" THEN Idle ELSE task
    /\ last' = NoLast
    /\ UNCHANGED <<state, disk, remote, now, ops>>

----------------------------------------------------------------------------
(* Specification *)

Sessions == {NoSession} \cup {<<u, t>> : u \in Users, t \in SignInTokens}

Init ==
    /\ state = new
    /\ \E anon \in {NoFile, LegacyEmptyIndex} :
          disk = [dir \in DataDirs |->
                     IF dir = new_store.data_dir
                     THEN [EmptyPartition EXCEPT !.index = anon]
                     ELSE EmptyPartition]
    /\ remote = [u \in Users |-> EmptyRemote]
    /\ task = Idle
    /\ now = 0
    /\ ops = 0
    /\ last = NoLast

Next ==
    \/ \E p \in NewPrompts, uuid \in Uuids \ UsedIds : SavePrompt(p, uuid)
    \/ \E p \in EditedPrompts : SavePrompt(p, "")
    \/ \E id \in InputIds : DeletePrompt(id)
    \/ \E name \in InputAddFolders : AddFolder(name)
    \/ \E r \in InputRenames : RenameFolder(r[1], r[2])
    \/ \E name \in InputDeleteFolders : DeleteFolder(name)
    \/ \E id \in InputIds : RecordUsage(id)
    \/ SaveIndex
    \/ GetIndex
    \/ Reload
    \/ \E outcome \in Outcomes : Mirror(outcome)
    \/ SyncToStart
    \/ SyncToLoadAll
    \/ \E outcome \in Outcomes : SyncToUpload(outcome)
    \/ SyncFromStart
    \/ \E o1 \in Outcomes, o2 \in Outcomes : SyncFromDownload(o1, o2)
    \/ SyncFromWrite
    \/ \E u \in Users, t \in SignInTokens : SetAuth(u, t)
    \/ ClearAuth
    \/ \E t \in RefreshTokens : UpdateToken(t)
    \/ \E session \in Sessions : Restart(session)
    \/ Return

Spec == Init /\ [][Next]_vars

----------------------------------------------------------------------------
(* LocalSpec: the DataStore operations on the anonymous partition of a      *)
(* service that never signs in, with time passing between them.            *)

\* Utc::now() advances
Tick ==
    /\ ~Observed
    /\ now < MaxClock
    /\ now' = now + 1
    /\ UNCHANGED <<state, disk, remote, task, last, ops>>

\* the partition after a first run at time 0
SeededPartition == seed_sample_prompts(EmptyPartition, 0).d

\* save_prompt(prompt) of a prompt the index does not hold: empty or fresh
\* id, filename left empty or given
LocalNewPrompts ==
    {Prompt(Metadata(p[1], "Code Review", p[3], p[2], 0, Never, 0, 0), "x") :
        p \in {<<"", "", "work">>, <<"", "", "development">>,
                <<"", "", "uncategorized">>, <<"p1", "note.md", "development">>}}

\* save_prompt(prompt) of a prompt read from the index and edited: name,
\* folder and content
LocalEditedPrompts ==
    IF disk[active].index = NoFile THEN {}
    ELSE UNION {{Prompt([m EXCEPT !.name = e[1], !.folder = e[2]], "x") :
                    e \in {<<m.name, m.folder>>, <<"Renamed", m.folder>>,
                            <<m.name, "work">>}} :
                m \in {disk[active].index.prompts[i] :
                         i \in DOMAIN disk[active].index.prompts}}

\* save_prompt(prompt) of a prompt the caller read after the first run and
\* kept since: the metadata is the one of that time
LocalStalePrompts ==
    {Prompt(SeededPartition.index.prompts[i], "x") :
        i \in DOMAIN SeededPartition.index.prompts}

LocalIds == {"code-review", "p1", "missing"} \cup Uuids
LocalAddFolders == {" Work", "Writing", ""}
LocalRenames == {<<"Development", "Dev">>, <<" Uncategorized", "Misc">>,
                 <<"writing", "Creative">>}
LocalDeleteFolders == {"Development", " UNCATEGORIZED ", "nope"}

LocalInit ==
    /\ state = new
    /\ \E anon \in {EmptyPartition,
                     [EmptyPartition EXCEPT !.index = LegacyEmptyIndex],
                     SeededPartition} :
          disk = [dir \in DataDirs |->
                     IF dir = new_store.data_dir THEN anon ELSE EmptyPartition]
    /\ remote = [u \in Users |-> EmptyRemote]
    /\ task = Idle
    /\ now = 0
    /\ ops = 0
    /\ last = NoLast

LocalNext ==
    \/ \E p \in LocalNewPrompts, uuid \in Uuids \ UsedIds : SavePrompt(p, uuid)
    \/ \E p \in LocalEditedPrompts : SavePrompt(p, "")
    \/ \E p \in LocalStalePrompts : SavePrompt(p, "")
    \/ \E id \in LocalIds : DeletePrompt(id)
    \/ \E name \in LocalAddFolders : AddFolder(name)
    \/ \E r \in LocalRenames : RenameFolder(r[1], r[2])
    \/ \E name \in LocalDeleteFolders : DeleteFolder(name)
    \/ \E id \in LocalIds : RecordUsage(id)
    \/ GetIndex
    \/ Reload
    \/ \E outcome \in Outcomes : Mirror(outcome)
    \/ Return
    \/ Tick

LocalSpec == LocalInit /\ [][LocalNext]_vars

----------------------------------------------------------------------------
(* SaveSpec: one call of save_prompt_sync, on inputs drawn at the start.   *)

\* Longest name of a prompt passed to save_prompt_sync.
MaxNameLen == 2

NameChars == {"a", "B", "1", "-", " ", "!"}

RECURSIVE NamesOfLen(_)
NamesOfLen(n) ==
    IF n = 0 THEN {""}
    ELSE {s \o c : s \in NamesOfLen(n - 1), c \in NameChars}

InputPromptNames == UNION {NamesOfLen(n) : n \in 0..MaxNameLen}

\* the prompts passed: empty id, the id of the sample or one the index has
\* not; filename empty or given; the sample as the caller holds it, with any
\* created value; and a new prompt of the sample's name and folder
InputPrompts ==
    {Prompt(Metadata(id, n, f, fn, 0, Never, 0, 0), "x") :
        id \in {"", "code-review", "p1"}, n \in InputPromptNames,
        f \in {"development", "work"}, fn \in {"", "My Note.md"}}
    \cup {Prompt(Metadata("code-review", "Code Review", "development",
                          "code-review.md", 0, Never, c, 0), "x") : c \in 0..MaxClock}
    \cup {Prompt(Metadata("", "Code Review", "development", "", 0, Never, 0, 0), "x")}

SaveInit ==
    /\ state = new
    /\ \E anon \in {EmptyPartition, SeededPartition} :
          disk = [dir \in DataDirs |->
                     IF dir = new_store.data_dir THEN anon ELSE EmptyPartition]
    /\ remote = [u \in Users |-> EmptyRemote]
    /\ \E p \in InputPrompts, uuid \in Uuids :
          task = Task("save_prompt", "call", new_store.data_dir, "none",
                      [prompt |-> p, uuid |-> uuid], <<>>, "pending")
    /\ now = 0
    /\ ops = 0
    /\ last = NoLast

\* save_prompt_sync on the inputs drawn; the task keeps the input, the
\* partition it found and the metadata returned
SaveCall ==
    /\ At("call")
    /\ LET r == save_prompt_sync(disk[task.part], task.data.prompt, now, task.data.uuid)
       IN  /\ disk' = [disk EXCEPT ![task.part] = r.d]
           /\ task' = [task EXCEPT
                         !.pc = "done",
                         !.local = IF r.ok THEN "ok" ELSE "err",
                         !.res = IF r.ok THEN "Ok" ELSE r.err,
                         !.data = [prompt |-> task.data.prompt,
                                   before |-> disk[task.part],
                                   m |-> r.val]]
    /\ UNCHANGED <<state, remote, now, last, ops>>

SaveNext == SaveCall \/ Tick

SaveSpec == SaveInit /\ [][SaveNext]_vars

----------------------------------------------------------------------------
(* Search: search_prompts_sync and its scores, in millionths of a point.    *)

SCORE_NAME_MATCH == 100
SCORE_FOLDER_MATCH == 50
SCORE_DESCRIPTION_MATCH == 30
SCORE_CONTENT_MATCH == 15
RECENCY_MAX_SCORE == 100
RECENCY_TIEBREAKER_MAX == 10
NEVER_USED_PENALTY == -1000
MAX_RESULTS == 15

\* an f64 number of points as an integer number of millionths
Points(x) == x * 1000000

MULT_EXACT(x) == x * 2
MULT_PREFIX(x) == (x * 3) \div 2
MULT_WORD(x) == x \div 2

\* Clock ticks in one hour.
TicksPerHour == 2

\* (-(0.693 / RECENCY_HALF_LIFE_HOURS) * hours).exp() in millionths, for
\* hours = 0, 1, ..., 12 with RECENCY_HALF_LIFE_HOURS = 720.0
ExpDecay ==
    <<1000000, 999037, 998076, 997116, 996157, 995199, 994241,
      993285, 992329, 991374, 990421, 989468, 988516>>

exp_decay(hours) == ExpDecay[hours + 1]

\* Utc::now().signed_duration_since(last).num_hours(): whole hours, toward zero
num_hours(t, since) ==
    IF t >= since THEN (t - since) \div TicksPerHour
    ELSE 0 - ((since - t) \div TicksPerHour)

\* hours.max(0.0)
max_zero(hours) == IF hours > 0 THEN hours ELSE 0

\* a recency score that counts from the creation of the prompt
calculate_recency_score_by_created(prompt, t) ==
    RECENCY_MAX_SCORE * exp_decay(max_zero(num_hours(t, prompt.created)))

calculate_recency_score(prompt, t) ==
    IF prompt.last_used = Never THEN Points(NEVER_USED_PENALTY)
    ELSE RECENCY_MAX_SCORE * exp_decay(max_zero(num_hours(t, prompt.last_used)))

calculate_recency_tiebreaker(prompt, t) ==
    IF prompt.last_used = Never THEN 0
    ELSE RECENCY_TIEBREAKER_MAX * exp_decay(max_zero(num_hours(t, prompt.last_used)))

SearchResult(prompt, score) == [prompt |-> prompt, score |-> score]

\* Ordering of x relative to y
cmp(x, y) == IF x < y THEN "Less" ELSE IF x > y THEN "Greater" ELSE "Equal"

\* the comparator of the empty query: score descending, then last_used
recency_order(a, b) ==
    LET score_cmp == cmp(b.score, a.score)
    IN  IF score_cmp # "Equal" THEN score_cmp
        ELSE IF b.prompt.last_used # Never /\ a.prompt.last_used # Never
             THEN cmp(b.prompt.last_used, a.prompt.last_used)
        ELSE IF b.prompt.last_used # Never THEN "Less"
        ELSE IF a.prompt.last_used # Never THEN "Greater"
        ELSE "Equal"

\* the comparator of a query: score descending
score_order(a, b) == cmp(b.score, a.score)

\* the closure handed to sort_by
compare(order, a, b) ==
    IF order = "recency" THEN recency_order(a, b) ELSE score_order(a, b)

\* x goes into the sorted s before the first element it is Less than
insert_sorted(s, x, order) ==
    LET later == {i \in 1..Len(s) : compare(order, x, s[i]) = "Less"}
        k == IF later = {} THEN Len(s) + 1
             ELSE CHOOSE i \in later : \A j \in later : i <= j
    IN  SubSeq(s, 1, k - 1) \o <<x>> \o SubSeq(s, k, Len(s))

\* slice::sort_by, a stable sort
RECURSIVE sort_by(_, _, _, _)
sort_by(s, order, i, acc) ==
    IF i > Len(s) THEN acc
    ELSE sort_by(s, order, i + 1, insert_sorted(acc, s[i], order))

truncate(s, n) == IF Len(s) > n THEN SubSeq(s, 1, n) ELSE s

starts_with(s, q) == Len(q) <= Len(s) /\ SubSeq(s, 1, Len(q)) = q

\* str::contains(&str)
str_contains(s, q) ==
    \E i \in 1..(Len(s) - Len(q) + 1) : SubSeq(s, i, i + Len(q) - 1) = q

\* str::split_whitespace, the words in order
RECURSIVE split_whitespace(_, _)
split_whitespace(s, cur) ==
    IF Len(s) = 0 THEN (IF cur = "" THEN <<>> ELSE <<cur>>)
    ELSE IF is_whitespace(CharAt(s, 1))
         THEN (IF cur = "" THEN <<>> ELSE <<cur>>)
              \o split_whitespace(SubSeq(s, 2, Len(s)), "")
         ELSE split_whitespace(SubSeq(s, 2, Len(s)), cur \o CharAt(s, 1))

\* the loop over query_words on the metadata, from word i
RECURSIVE metadata_word_points(_, _, _, _, _)
metadata_word_points(name_lower, folder_lower, desc_lower, words, i) ==
    IF i > Len(words) THEN 0
    ELSE (IF str_contains(name_lower, words[i])
          THEN MULT_WORD(Points(SCORE_NAME_MATCH)) ELSE 0)
         + (IF str_contains(folder_lower, words[i])
            THEN MULT_WORD(Points(SCORE_FOLDER_MATCH)) ELSE 0)
         + (IF str_contains(desc_lower, words[i])
            THEN MULT_WORD(Points(SCORE_DESCRIPTION_MATCH)) ELSE 0)
         + metadata_word_points(name_lower, folder_lower, desc_lower, words, i + 1)

\* the loop over query_words on the content, from word i
RECURSIVE content_word_points(_, _, _)
content_word_points(content_lower, words, i) ==
    IF i > Len(words) THEN 0
    ELSE (IF str_contains(content_lower, words[i])
          THEN MULT_WORD(Points(SCORE_CONTENT_MATCH)) ELSE 0)
         + content_word_points(content_lower, words, i + 1)

\* a score in which a name equal to the query counts as a plain match
calculate_score_flat(d, prompt, query, t) ==
    LET name_lower == to_lowercase(prompt.name)
        base == IF str_contains(name_lower, query) THEN Points(SCORE_NAME_MATCH) ELSE 0
    IN  IF base > 0 THEN base + calculate_recency_tiebreaker(prompt, t) ELSE 0

calculate_score(d, prompt, query, t) ==
    LET name_lower == to_lowercase(prompt.name)
        folder_lower == to_lowercase(prompt.folder)
        desc_lower == to_lowercase(prompt.description)
        query_words == split_whitespace(query, "")
        in_name == IF name_lower = query THEN MULT_EXACT(Points(SCORE_NAME_MATCH))
                   ELSE IF starts_with(name_lower, query)
                        THEN MULT_PREFIX(Points(SCORE_NAME_MATCH))
                   ELSE IF str_contains(name_lower, query)
                        THEN Points(SCORE_NAME_MATCH)
                   ELSE 0
        in_folder == IF str_contains(folder_lower, query)
                     THEN Points(SCORE_FOLDER_MATCH) ELSE 0
        in_desc == IF str_contains(desc_lower, query)
                   THEN Points(SCORE_DESCRIPTION_MATCH) ELSE 0
        direct == in_name + in_folder + in_desc
        fuzzy == IF direct = 0
                 THEN metadata_word_points(name_lower, folder_lower, desc_lower,
                                           query_words, 1)
                 ELSE direct
        content_lower == to_lowercase(read_prompt_content(d, prompt.folder, prompt.filename))
        matched == IF fuzzy # 0 THEN fuzzy
                   ELSE IF str_contains(content_lower, query)
                        THEN Points(SCORE_CONTENT_MATCH)
                   ELSE content_word_points(content_lower, query_words, 1)
    IN  IF matched > 0 THEN matched + calculate_recency_tiebreaker(prompt, t) ELSE 0

\* the map / filter_map over index.prompts, from position i
RECURSIVE score_all(_, _, _, _, _)
score_all(d, prompts, query, t, i) ==
    IF i > Len(prompts) THEN <<>>
    ELSE LET score == IF query = "" THEN calculate_recency_score(prompts[i], t)
                      ELSE calculate_score(d, prompts[i], query, t)
         IN  (IF query = "" \/ score > 0
              THEN <<SearchResult(prompts[i], score)>> ELSE <<>>)
             \o score_all(d, prompts, query, t, i + 1)

search_prompts_sync(d, query, t) ==
    LET l == load_index_sync(d, t)
        query_lower == to_lowercase(query)
        results == score_all(l.d, l.val.prompts, query_lower, t, 1)
    IN  IF query_lower = ""
        THEN Ok(l.d, truncate(sort_by(results, "recency", 1, <<>>), MAX_RESULTS))
        ELSE Ok(l.d, truncate(sort_by(results, "score", 1, <<>>), MAX_RESULTS))

----------------------------------------------------------------------------
(* SearchSpec: one call of search_prompts_sync, on an index and a query     *)
(* drawn at the start.                                                      *)

\* Longest index of which every assignment of last_used is drawn.
MaxShort == 3

\* Latest tick of the clock and of a last_used timestamp.
MaxSearchClock == 4

\* Prompts of the longest index beyond MAX_RESULTS.
MaxExtra == 2

LastUsedValues == {Never} \cup (0..MaxSearchClock)

\* PromptMetadata with the description the search reads
SearchMetadata(id, name, folder, description, last_used) ==
    Described(Metadata(id, name, folder, id \o ".md", 0, last_used, 0, 0),
              description, None, None)

SearchFolders == <<"work", "misc", "uncategorized">>

\* a partition whose index holds these prompts, each with a content file
SearchPartition(prompts) ==
    [index |-> PromptIndex(prompts, SearchFolders, TRUE),
     files |-> [k \in {Key(prompts[i].folder, prompts[i].filename) :
                          i \in DOMAIN prompts} |-> "Work log"],
     dirs |-> {prompts[i].folder : i \in DOMAIN prompts}]

\* indexes for the empty query: every assignment of last_used to up to
\* MaxShort prompts, and indexes longer than MAX_RESULTS whose last_used
\* values cycle through LastUsedValues with stride a from offset b
RecencyIndexes ==
    UNION {{[i \in 1..n |-> SearchMetadata("p" \o ToString(i), "Prompt", "misc", "", f[i])] :
               f \in [1..n -> LastUsedValues]} : n \in 0..MaxShort}
    \cup {[i \in 1..n |->
              SearchMetadata("p" \o ToString(i), "Prompt", "misc", "",
                             ((i * a + b) % (MaxSearchClock + 2)) - 1)] :
            n \in (MAX_RESULTS + 1)..(MAX_RESULTS + MaxExtra),
            a \in {1, 2, 3}, b \in 0..(MaxSearchClock + 1)}

SearchQueries == {"work", "Work", "my notes"}

\* prompts for a query: name equal to it, starting with it, containing it
\* or not, folder and description matching or not, used or never used
ScoredPrompts(id) ==
    {SearchMetadata(id, n, f, desc, u) :
        n \in {"Work", "Work Notes", "My work", "Other"},
        f \in {"work", "misc"}, desc \in {"", "for work"},
        u \in {Never, 0, MaxSearchClock}}

ScoredIndexes == {<<a, b>> : a \in ScoredPrompts("p1"), b \in ScoredPrompts("p2")}

SearchInit ==
    /\ state = new
    /\ \E c \in ({[query |-> "", prompts |-> ps, t |-> t] :
                     ps \in RecencyIndexes, t \in 0..MaxSearchClock}
                 \cup {[query |-> q, prompts |-> ps, t |-> MaxSearchClock] :
                          q \in SearchQueries, ps \in ScoredIndexes}) :
          /\ disk = [dir \in DataDirs |->
                        IF dir = new_store.data_dir THEN SearchPartition(c.prompts)
                        ELSE EmptyPartition]
          /\ task = Task("search_prompts", "call", new_store.data_dir, "none",
                         [query |-> c.query], <<>>, "pending")
          /\ now = c.t
    /\ remote = [u \in Users |-> EmptyRemote]
    /\ ops = 0
    /\ last = NoLast

\* search_prompts_sync on the inputs drawn; the task keeps the query and the
\* results
SearchCall ==
    /\ At("call")
    /\ task.op = "search_prompts"
    /\ LET r == search_prompts_sync(disk[task.part], task.data.query, now)
       IN  /\ disk' = [disk EXCEPT ![task.part] = r.d]
           /\ task' = [task EXCEPT
                         !.pc = "done", !.local = "ok", !.res = "Ok",
                         !.data = [query |-> task.data.query, results |-> r.val]]
    /\ UNCHANGED <<state, remote, now, last, ops>>

SearchNext == SearchCall

SearchSpec == SearchInit /\ [][SearchNext]_vars

----------------------------------------------------------------------------
(* ConvSpec: one conversion to a remote document and back, of a prompt or  *)
(* of a UserMeta drawn at the start.                                       *)

\* Longest folder list of a UserMeta converted.
MaxFolders == 2

\* use counts of one and of two digits
UseCounts == (0..MaxUse) \cup {10 * MaxUse + 2}

ConvPrompts ==
    {Prompt(Described(Metadata("p1", n, "work", "a.md", c, u, cr, up), desc, icon, color),
            content) :
        n \in {"", "A b"}, c \in UseCounts, u \in {Never, 0, 1},
        cr \in {0, 1}, up \in {0, 1}, desc \in {"", "About"},
        icon \in {None, "star"}, color \in {None, "red"}, content \in {"", "x"}}

FolderLists ==
    UNION {[1..n -> {"work", "uncategorized"}] : n \in 0..MaxFolders}

\* the FolderMetadata a folder may carry: named as its key or otherwise
FolderMetadatas(key) ==
    {FolderMetadata(n, icon, color) :
        n \in {key, "Shown"}, icon \in {None, "star"}, color \in {None, "red"}}

FolderMetaMaps ==
    UNION {{[k \in ks |-> IF k = "work" THEN w ELSE m] :
               w \in FolderMetadatas("work"), m \in FolderMetadatas("misc")} :
            ks \in SUBSET {"work", "misc"}}

ConvUserMetas ==
    {UserMeta(fs, fm) :
        fs \in FolderLists,
        fm \in {NoFolderMeta} \cup {SomeFolderMeta(map) : map \in FolderMetaMaps}}

ConvInit ==
    /\ state = new
    /\ disk = [dir \in DataDirs |-> EmptyPartition]
    /\ remote = [u \in Users |-> EmptyRemote]
    /\ \/ \E p \in ConvPrompts :
             task = Task("convert_prompt", "call", new_store.data_dir, "none",
                         [prompt |-> p], <<>>, "pending")
       \/ \E m \in ConvUserMetas :
             task = Task("convert_meta", "call", new_store.data_dir, "none",
                         [meta |-> m], <<>>, "pending")
    /\ now = 0
    /\ ops = 0
    /\ last = NoLast

\* to_prompt(from_prompt(prompt)); the task keeps the prompt, the document
\* and the result
ConvertPrompt ==
    /\ At("call")
    /\ task.op = "convert_prompt"
    /\ LET doc == from_prompt(task.data.prompt)
       IN  task' = [task EXCEPT
                      !.pc = "done", !.local = "ok", !.res = "Ok",
                      !.data = [prompt |-> task.data.prompt, doc |-> doc,
                                back |-> to_prompt(doc)]]
    /\ UNCHANGED <<state, disk, remote, now, last, ops>>

\* to_user_meta(from_user_meta(meta))
ConvertMeta ==
    /\ At("call")
    /\ task.op = "convert_meta"
    /\ LET doc == from_user_meta(task.data.meta)
       IN  task' = [task EXCEPT
                      !.pc = "done", !.local = "ok", !.res = "Ok",
                      !.data = [meta |-> task.data.meta, doc |-> doc,
                                back |-> to_user_meta(doc)]]
    /\ UNCHANGED <<state, disk, remote, now, last, ops>>

ConvNext == ConvertPrompt \/ ConvertMeta

ConvSpec == ConvInit /\ [][ConvNext]_vars

----------------------------------------------------------------------------
(* Properties: sync_to_firestore, sync_from_firestore                      *)

\* the persisted index of the active partition exists and holds no prompt
ActiveIndexEmpty ==
    /\ disk[active].index # NoFile
    /\ Len(disk[active].index.prompts) = 0

\* this step is the first block of sync_to_firestore, run with credentials
SyncToStarts ==
    /\ Ready
    /\ state.user_id # None /\ state.id_token # None
    /\ task'.op = "sync_to"

\* what C1 promises of such a step
Refused ==
    /\ task'.pc = "done"
    /\ task'.res = "EmptyLocal"
    /\ task'.calls = <<>>
    /\ remote' = remote

\* C1 as stated: sync_to_firestore, called while authenticated on an active
\* partition whose index holds zero prompts, returns an error and issues no
\* remote call, so the remote store is unchanged.
C1_AsStated == [][(SyncToStarts /\ ActiveIndexEmpty) => Refused]_vars

\* C1, amended: sync_to_firestore, called while authenticated on an active
\* partition whose index holds zero prompts and is marked seeded (so that
\* loading it does not seed the samples), returns an error and issues no
\* remote call, so the remote store is unchanged.
C1_EmptyUploadRefused ==
    [][(SyncToStarts /\ ActiveIndexEmpty /\ disk[active].index.seeded) => Refused]_vars

\* an authenticated sync_to_firestore was refused on a seeded, empty index
C1_Witness ==
    /\ task.op = "sync_to" /\ task.pc = "done" /\ task.res = "EmptyLocal"
    /\ task.local = "ok" /\ task.calls = <<>>
    /\ disk[task.part].index # NoFile
    /\ disk[task.part].index.seeded
    /\ Len(disk[task.part].index.prompts) = 0

\* C2: sync_from_firestore, with no operation in between, when the remote
\* store returns zero prompts and the local index holds at least one prompt,
\* returns success and leaves the local index and every content file as they
\* were: neither its first block nor its download step changes the disk, and
\* the download step ends the operation with Ok.
C2_EmptyDownloadSkipped ==
    [][/\ ( /\ Ready /\ task'.op = "sync_from"
            /\ disk[active].index # NoFile
            /\ Len(disk[active].index.prompts) > 0 )
          => disk' = disk
       /\ ( /\ task.op = "sync_from" /\ task.pc = "download"
            /\ task'.op = "sync_from" /\ task'.pc # "download"
            /\ task.data.local_prompt_count > 0
            /\ \A i \in DOMAIN task'.calls : task'.calls[i].outcome = "ok"
            /\ Len(fetch_all_prompts(remote[task.data.user])) = 0 )
          => /\ task'.pc = "done"
             /\ task'.res = "Ok"
             /\ disk' = disk
      ]_vars

\* sync_from_firestore returned Ok without writing, over a local index with
\* prompts
C2_Witness ==
    /\ task.op = "sync_from" /\ task.pc = "done" /\ task.res = "Ok"
    /\ task.data.skipped
    /\ Len(task.calls) = 2
    /\ disk[task.part].index # NoFile
    /\ Len(disk[task.part].index.prompts) > 0

----------------------------------------------------------------------------
(* Properties: the mutating operations and their mirror calls              *)

C4_MirrorOnlyWithContext ==
    [][( /\ task'.op \in MutatingOps
         /\ Len(task'.calls) > (IF task.op = task'.op THEN Len(task.calls) ELSE 0) )
       => /\ state.sync_enabled
          /\ state.user_id # None
          /\ state.id_token # None
          /\ task'.calls[Len(task'.calls)].user = state.user_id
          /\ task'.calls[Len(task'.calls)].token = state.id_token
      ]_vars

\* a mutating operation ran to its end on the anonymous partition, its local
\* step done, and issued no call
C4_Witness ==
    /\ task.op \in MutatingOps
    /\ task.pc = "done" /\ task.local = "ok" /\ task.res = "Ok"
    /\ ~is_authenticated(state)
    /\ task.calls = <<>>

\* C5: a mutating operation issues its mirror call only after its local step
\* succeeded, and the call does not touch the disk; when the local step fails
\* the operation returns that error at once and issues no remote call.
C5_LocalFirst ==
    [][task'.op \in MutatingOps
       => /\ Len(task'.calls) > 0
             => /\ task.op = task'.op
                /\ task.local = "ok"
                /\ (Len(task'.calls) > Len(task.calls) => disk' = disk)
          /\ task'.local = "err"
             => /\ task'.pc = "done"
                /\ task'.res \notin {"Ok", "pending"}
                /\ task'.calls = <<>>
                /\ remote' = remote
      ]_vars

\* the local step of a mutating operation failed on an authenticated service,
\* and the operation returned the error without a call
C5_Witness ==
    /\ task.op \in MutatingOps
    /\ task.pc = "done" /\ task.local = "err"
    /\ task.res \notin {"Ok", "pending"}
    /\ task.calls = <<>>
    /\ get_sync_context(state) # NoCtx

----------------------------------------------------------------------------
(* Properties: authentication and partitions                               *)

\* the partition of the user the state holds
partition_of(user_id) == IF user_id = None THEN new_store ELSE for_user(user_id)

C7_AsStated ==
    /\ (state.user_id # None) <=> (state.id_token # None)
    /\ (state.id_token # None) <=> state.sync_enabled
    /\ state.local_store = partition_of(state.user_id)

\* C7, amended: user id present and sync enabled are both true or both false,
\* a present user id comes with a token (a token may be present without a user
\* id, after update_token on an unauthenticated service), and the active
\* partition is that of the user id.
C7_AuthFieldsAgree ==
    /\ (state.user_id # None) <=> state.sync_enabled
    /\ (state.user_id # None) => (state.id_token # None)
    /\ state.local_store = partition_of(state.user_id)

\* update_token has just stored a token in a service with no user
C7_Witness ==
    /\ last.op = "update_token"
    /\ ~last.was_auth
    /\ state.user_id = None
    /\ state.id_token \in RefreshTokens
    /\ ~state.sync_enabled
    /\ state.local_store = new_store

\* C8: update_token replaces the token and nothing else: the active
\* partition, the user id, the sync flag, the disk and the remote store are
\* unchanged, and an authenticated service stays authenticated.
C8_UpdateTokenFrame ==
    [][last'.op = "update_token"
       => /\ state'.id_token \in RefreshTokens
          /\ state'.local_store = state.local_store
          /\ state'.user_id = state.user_id
          /\ state'.sync_enabled = state.sync_enabled
          /\ disk' = disk
          /\ remote' = remote
          /\ is_authenticated(state) => is_authenticated(state')
      ]_vars

\* update_token has just replaced the token of an authenticated service that
\* has data on its partition
C8_Witness ==
    /\ last.op = "update_token"
    /\ last.was_auth
    /\ is_authenticated(state)
    /\ state.id_token \in RefreshTokens
    /\ disk[active].index # NoFile

\* C9: clear_auth switches to the anonymous partition, drops user id and
\* token, disables sync, and changes nothing on the disk.
C9_ClearAuthFrame ==
    [][last'.op = "clear_auth"
       => /\ state'.local_store = new_store
          /\ state'.user_id = None
          /\ state'.id_token = None
          /\ ~state'.sync_enabled
          /\ disk' = disk
      ]_vars

\* clear_auth has just signed out a user whose partition holds prompts
C9_Witness ==
    /\ last.op = "clear_auth"
    /\ last.was_auth
    /\ state.local_store = new_store
    /\ disk[for_user(last.user).data_dir].index # NoFile
    /\ Len(disk[for_user(last.user).data_dir].index.prompts) > 0

\* C10: when the partition of user u has an index as set_auth(u, _) or the
\* restore of a session of u runs, migrate_from_anonymous returns false and
\* the disk is as it was, whatever the anonymous partition holds.
C10_MigrationNeverOverwrites ==
    [][( /\ last'.op \in {"set_auth", "restore"}
         /\ last'.had_index )
       => /\ ~last'.migrated
          /\ disk' = disk
      ]_vars

\* set_auth found an index of the user, and an anonymous index that differs
\* from it, and migrated nothing
C10_Witness ==
    /\ last.op = "set_auth"
    /\ last.had_index
    /\ ~last.migrated
    /\ disk[new_store.data_dir].index # NoFile
    /\ disk[new_store.data_dir].index # disk[for_user(last.user).data_dir].index

----------------------------------------------------------------------------
(* Properties: migration, identity switch                                  *)

\* C11: when the anonymous partition has an index and the partition of user
\* u has none, set_auth(u, _) migrates: afterwards get_prompt on u's
\* partition returns every record of the anonymous index with the metadata
\* and content the anonymous partition holds, and the anonymous partition is
\* as it was.
C11_MigrationCopies ==
    [][( /\ last'.op = "set_auth"
         /\ ~last'.had_index
         /\ disk[new_store.data_dir].index # NoFile )
       => LET anon == disk[new_store.data_dir]
              user == disk'[for_user(last'.user).data_dir]
          IN  /\ last'.migrated
              /\ disk'[new_store.data_dir] = anon
              /\ \A i \in DOMAIN anon.index.prompts :
                    LET m == anon.index.prompts[i]
                        r == get_prompt_sync(user, m.id, now)
                    IN  /\ r.ok
                        /\ r.val.metadata = m
                        /\ r.val.content = read_prompt_content(anon, m.folder, m.filename)
      ]_vars

\* set_auth has just migrated an anonymous library that holds a prompt with
\* content
C11_Witness ==
    /\ last.op = "set_auth"
    /\ last.migrated
    /\ ~last.had_index
    /\ Len(disk[new_store.data_dir].index.prompts) > 0
    /\ \E k \in DOMAIN disk[new_store.data_dir].files :
          /\ k \in DOMAIN disk[for_user(last.user).data_dir].files
          /\ disk[new_store.data_dir].files[k] # ""

\* C12: a sync_from_firestore that started while user u was active writes the
\* downloaded index and content into the partition of u only, also when
\* clear_auth or set_auth runs while its download is pending: its write step
\* changes no other partition.
C12_InFlightKeepsPartition ==
    [][( /\ task.op = "sync_from" /\ task.pc = "write"
         /\ task'.op = "sync_from" /\ task'.pc = "done" )
       => \A dir \in DataDirs \ {for_user(task.data.user).data_dir} :
             disk'[dir] = disk[dir]
      ]_vars

----------------------------------------------------------------------------
(* Properties: the local store                                             *)

\* the index of partition d is persisted with seeded = true
Seeded(d) == d.index # NoFile /\ d.index.seeded

\* load() of partition d writes the default library
Seeds(d) == load_index_sync(d, now).d # d

\* C13: load() seeds only when the index file is absent or holds no prompt
\* with seeded = false, and what it then persists has seeded = true; a
\* partition whose index is seeded stays seeded through every operation, and
\* load() returns its index as persisted, empty included, writing nothing.
C13_SeededOnce ==
    /\ [](\A dir \in DataDirs :
            LET d == disk[dir] IN
            /\ Seeds(d) <=> ( \/ d.index = NoFile
                              \/ (Len(d.index.prompts) = 0 /\ ~d.index.seeded) )
            /\ Seeds(d) => Seeded(load_index_sync(d, now).d)
            /\ Seeded(d) => load_index_sync(d, now) = Ok(d, d.index))
    /\ [][\A dir \in DataDirs : Seeded(disk[dir]) => Seeded(disk'[dir])]_vars

\* an operation has just loaded a seeded index without prompts, found nothing
\* and seeded nothing
C13_Witness ==
    /\ task.op \in {"delete_prompt", "record_usage"}
    /\ task.pc = "done" /\ task.local = "err"
    /\ Seeded(disk[task.part])
    /\ Len(disk[task.part].index.prompts) = 0
    /\ load_index_sync(disk[task.part], now).val.prompts = <<>>

\* save_prompt_sync has returned Ok in SaveSpec
Saved == task.op = "save_prompt" /\ task.pc = "done" /\ task.local = "ok"

\* the index save_prompt_sync loaded from the partition it found
LoadedBefore == load_index_sync(task.data.before, now).val

\* the save was an update: the id passed was in the index
WasUpdate == position(LoadedBefore.prompts, task.data.prompt.metadata.id) # 0

\* metadata m without its updated and last_used fields
Untimed(m) == [m EXCEPT !.updated = 0, !.last_used = 0]

\* get_prompt of the id returned gives the content passed and the metadata
\* returned
ReadsBack ==
    LET g == get_prompt_sync(disk[task.part], task.data.m.id, now)
    IN  /\ g.ok
        /\ g.val.content = task.data.prompt.content
        /\ g.val.metadata = task.data.m

IsSlug(s) ==
    /\ \A i \in 1..Len(s) :
          Contains(Lower, CharAt(s, i)) \/ Contains(Digits, CharAt(s, i)) \/ CharAt(s, i) = "-"
    /\ Len(s) > 0 => (CharAt(s, 1) # "-" /\ CharAt(s, Len(s)) # "-")
    /\ \A i \in 1..(Len(s) - 1) : ~(CharAt(s, i) = "-" /\ CharAt(s, i + 1) = "-")

\* the filename the index holds for the id returned
StoredFilename ==
    get_prompt_sync(disk[task.part], task.data.m.id, now).val.metadata.filename

\* the stored filename is the slug of the name passed, plus ".md"
FilenameIsSlug ==
    /\ StoredFilename = slugify(task.data.prompt.metadata.name) \o ".md"
    /\ IsSlug(SubSeq(StoredFilename, 1, Len(StoredFilename) - 3))
    /\ SubSeq(StoredFilename, Len(StoredFilename) - 2, Len(StoredFilename)) = ".md"

IdsUnique(d) ==
    d.index # NoFile =>
       \A i, j \in DOMAIN d.index.prompts :
          d.index.prompts[i].id = d.index.prompts[j].id => i = j

\* C16: in every reachable state of a partition, after any sequence of
\* save_prompt (empty, fresh or existing id), delete_prompt, folder
\* operations and record_usage, no two entries of index.prompts have the same
\* id; so a save with an empty id gets an id no entry had.
C16_IdsUnique == \A dir \in DataDirs : IdsUnique(disk[dir])

\* a save has returned on an index that holds a generated id, the fresh id
\* "p1" and the id of the sample
C16_Witness ==
    /\ task.op = "save_prompt" /\ task.pc = "done" /\ task.local = "ok"
    /\ disk[task.part].index # NoFile
    /\ IdsOf(disk[task.part].index) \cap Uuids # {}
    /\ {"p1", "code-review"} \subseteq IdsOf(disk[task.part].index)

\* every prompt of the index of partition d has its folder in index.folders
FoldersHoldPrompts(d) ==
    d.index # NoFile =>
       \A i \in DOMAIN d.index.prompts :
          contains(d.index.folders, d.index.prompts[i].folder)

\* C17: in every reachable state of a partition, after any sequence of
\* save_prompt (create, or update that changes the folder), delete_prompt,
\* add_folder, rename_folder, delete_folder, record_usage and
\* sync_from_firestore, the folder of every prompt is in index.folders.
C17_FoldersHoldEveryPrompt == \A dir \in DataDirs : FoldersHoldPrompts(disk[dir])

\* index.folders of partition d holds "uncategorized" and no name twice
FoldersWellFormed(d) ==
    d.index # NoFile =>
       /\ contains(d.index.folders, "uncategorized")
       /\ \A i, j \in DOMAIN d.index.folders :
             d.index.folders[i] = d.index.folders[j] => i = j

\* C18: in every reachable state index.folders contains "uncategorized" and
\* holds no duplicates, also after rename_folder of a name that normalizes to
\* "uncategorized" and after sync_from_firestore.
C18_FoldersWellFormed == \A dir \in DataDirs : FoldersWellFormed(disk[dir])

\* the persisted index of partition d holds no prompt with this id
NotInIndex(d, id) == d.index = NoFile \/ id \notin IdsOf(d.index)

\* the running operation has failed in its local step with err
FailedWith(err) == task'.pc = "done" /\ task'.local = "err" /\ task'.res = err

\* C19 as stated: delete_prompt(id) with id not in the persisted index fails
\* NotFound and leaves index and content files of every partition unchanged.
C19_AsStated ==
    [][\A id \in LocalIds :
          (DeletePrompt(id) /\ NotInIndex(disk[active], id))
             => (FailedWith("NotFound") /\ disk' = disk)
      ]_vars

\* C19: delete_prompt(id) with id not in the index that load() returns fails
\* NotFound and leaves the disk as load() left it; when the persisted index
\* is seeded or holds a prompt, load() writes nothing and index (prompts,
\* folders, seeded) and all content files are unchanged.
C19_DeleteOfAbsentId ==
    [][\A id \in LocalIds :
          LET l == load_index_sync(disk[active], now) IN
          (DeletePrompt(id) /\ id \notin IdsOf(l.val))
             => /\ FailedWith("NotFound")
                /\ disk' = [disk EXCEPT ![active] = l.d]
                /\ ~Seeds(disk[active]) => disk' = disk
      ]_vars

\* delete_prompt has failed NotFound on an index that holds a prompt
C19_Witness ==
    /\ task.op = "delete_prompt" /\ task.pc = "done"
    /\ task.local = "err" /\ task.res = "NotFound"
    /\ disk[task.part].index # NoFile
    /\ Len(disk[task.part].index.prompts) > 0
    /\ ~Seeds(disk[task.part])

\* C20 as stated: delete_folder(name) fails InvalidInput and changes nothing
\* whenever name normalizes to "uncategorized", in every state.
C20_AsStated ==
    [][\A name \in LocalDeleteFolders :
          (DeleteFolder(name) /\ normalize(name) = "uncategorized")
             => (FailedWith("InvalidInput") /\ disk' = disk)
      ]_vars

\* C20: delete_folder(name) fails InvalidInput whenever name normalizes to
\* "uncategorized", in every state, and leaves the disk as load() left it:
\* unchanged when the persisted index is seeded or holds a prompt.
C20_UncategorizedKept ==
    [][\A name \in LocalDeleteFolders :
          (DeleteFolder(name) /\ normalize(name) = "uncategorized")
             => /\ FailedWith("InvalidInput")
                /\ disk' = [disk EXCEPT
                              ![active] = load_index_sync(disk[active], now).d]
                /\ ~Seeds(disk[active]) => disk' = disk
      ]_vars

\* delete_folder of the reserved folder has been refused on an index that
\* lists it and holds a prompt
C20_Witness ==
    /\ task.op = "delete_folder" /\ task.pc = "done"
    /\ task.local = "err" /\ task.res = "InvalidInput"
    /\ disk[task.part].index # NoFile
    /\ contains(disk[task.part].index.folders, "uncategorized")
    /\ Len(disk[task.part].index.prompts) > 0

\* the content get_prompt returns for the prompt with this id in partition d
ContentOf(d, id) == get_prompt_sync(d, id, now).val.content

\* C21: after a successful delete_folder(F) no prompt has folder F, F is not
\* in index.folders, every prompt that was in F has folder "uncategorized"
\* and get_prompt returns the content it had before, and the number of
\* prompts and the content of every prompt that was not in F are unchanged.
C21_DeleteFolderMoves ==
    [][\A name \in LocalDeleteFolders :
          (DeleteFolder(name) /\ task'.local = "ok")
             => LET F == normalize(name)
                    l == load_index_sync(disk[active], now)
                    old == l.val
                    after == disk'[active]
                IN  /\ \A i \in DOMAIN after.index.prompts :
                          after.index.prompts[i].folder # F
                    /\ ~contains(after.index.folders, F)
                    /\ Len(after.index.prompts) = Len(old.prompts)
                    /\ \A i \in DOMAIN old.prompts :
                          LET m == old.prompts[i]
                              j == position(after.index.prompts, m.id)
                          IN  /\ j # 0
                              /\ m.folder = F
                                    => after.index.prompts[j].folder = "uncategorized"
                              /\ ContentOf(after, m.id) = ContentOf(l.d, m.id)
      ]_vars

\* index.folders as persisted in partition d, empty when there is no index
FoldersOf(d) == IF d.index = NoFile THEN <<>> ELSE d.index.folders

\* add_folder(name) behaves as C22 says, folders being old before the call
AddFolderContract(name, old) ==
    LET n == normalize(name)
        after == FoldersOf(disk'[active])
    IN  /\ n = "" => (FailedWith("InvalidInput") /\ after = old)
        /\ (n # "" /\ contains(old, n)) => (FailedWith("AlreadyExists") /\ after = old)
        /\ (n # "" /\ ~contains(old, n)) => (task'.local = "ok" /\ after = Append(old, n))

\* C22 as stated: add_folder normalizes its argument, fails InvalidInput on
\* an empty normalized name and AlreadyExists on one already in the persisted
\* folders, leaves the persisted folders unchanged on failure and appends
\* exactly the normalized name on success.
C22_AsStated ==
    [][\A name \in LocalAddFolders :
          AddFolder(name) => AddFolderContract(name, FoldersOf(disk[active]))
      ]_vars

\* C22: add_folder normalizes its argument (trim, lowercase), fails
\* InvalidInput on an empty normalized name and AlreadyExists on one already
\* in the folders of the index load() returns, leaves those folders unchanged
\* on failure and appends exactly the normalized name on success; they are
\* the persisted folders whenever load() does not seed.
C22_AddFolderNormalizes ==
    [][\A name \in LocalAddFolders :
          AddFolder(name)
             => /\ AddFolderContract(name, load_index_sync(disk[active], now).val.folders)
                /\ ~Seeds(disk[active])
                      => AddFolderContract(name, FoldersOf(disk[active]))
      ]_vars

\* add_folder(" Work") has failed AlreadyExists after "work" was added
C22_Witness ==
    /\ task.op = "add_folder" /\ task.pc = "done"
    /\ task.local = "err" /\ task.res = "AlreadyExists"
    /\ contains(FoldersOf(disk[task.part]), "work")

\* C23: use_count is a monotonic counter: for every id that a step keeps in
\* the index of a partition (save_prompt updates, record_usage, folder
\* operations), the stored use_count does not decrease.
C23_UseCountMonotonic ==
    [][\A dir \in DataDirs :
          (disk[dir].index # NoFile /\ disk'[dir].index # NoFile)
             => \A id \in IdsOf(disk[dir].index) \cap IdsOf(disk'[dir].index) :
                   UseCountOf(disk'[dir], id) >= UseCountOf(disk[dir], id)
      ]_vars

----------------------------------------------------------------------------
(* Properties: search                                                       *)

\* search_prompts_sync has returned for this query
Searched(query) ==
    /\ task.op = "search_prompts" /\ task.pc = "done"
    /\ to_lowercase(task.data.query) = query

SearchedQuery ==
    /\ task.op = "search_prompts" /\ task.pc = "done"
    /\ to_lowercase(task.data.query) # ""

\* the position of the prompt with this id in the results, 0 when left out
RankOf(id) ==
    IF \E i \in DOMAIN task.data.results : task.data.results[i].prompt.id = id
    THEN CHOOSE i \in DOMAIN task.data.results : task.data.results[i].prompt.id = id
    ELSE 0

\* the name of a equals q, and q is in the name of b without being equal to it
ExactAndSubstring(a, b, q) ==
    /\ to_lowercase(a.name) = q
    /\ str_contains(to_lowercase(b.name), q)
    /\ to_lowercase(b.name) # q

\* a scores strictly higher than b and is returned before it
ScoresHigher(a, b, q) ==
    /\ calculate_score(disk[task.part], a, q, now)
          > calculate_score(disk[task.part], b, q, now)
    /\ RankOf(a.id) # 0
    /\ RankOf(b.id) # 0 => RankOf(a.id) < RankOf(b.id)

\* C25 as stated: for a query q that is not empty, a prompt whose lowercased
\* name equals q scores strictly higher than any prompt whose name contains q
\* without being equal to it, whatever the last_used of the two, and is
\* returned before it.
C25_AsStated ==
    SearchedQuery =>
       LET q == to_lowercase(task.data.query)
           ps == disk[task.part].index.prompts
       IN  \A i, j \in DOMAIN ps :
              ExactAndSubstring(ps[i], ps[j], q) => ScoresHigher(ps[i], ps[j], q)

\* C25: for a query q that is not empty, a prompt whose lowercased name
\* equals q scores strictly higher than any prompt in which q appears in the
\* name only, as a substring not equal to it and neither in the folder nor in
\* the description, whatever the last_used of the two, and is returned
\* before it.
C25_ExactNameFirst ==
    SearchedQuery =>
       LET q == to_lowercase(task.data.query)
           ps == disk[task.part].index.prompts
       IN  \A i, j \in DOMAIN ps :
              ( /\ ExactAndSubstring(ps[i], ps[j], q)
                /\ ~str_contains(to_lowercase(ps[j].folder), q)
                /\ ~str_contains(to_lowercase(ps[j].description), q) )
                 => ScoresHigher(ps[i], ps[j], q)

\* a never-used prompt named as the query was returned before a prompt used
\* just now whose name starts with the query
C25_Witness ==
    /\ SearchedQuery
    /\ Len(task.data.results) = 2
    /\ LET a == task.data.results[1].prompt
           b == task.data.results[2].prompt
           q == to_lowercase(task.data.query)
       IN  /\ ExactAndSubstring(a, b, q)
           /\ a.last_used = Never
           /\ b.last_used = now
           /\ ~str_contains(to_lowercase(b.folder), q)
           /\ ~str_contains(to_lowercase(b.description), q)

----------------------------------------------------------------------------
(* Properties: remote documents                                             *)

Converted(op) == task.op = op /\ task.pc = "done"

\* C26: for every prompt p, to_prompt(from_prompt(p)) succeeds and returns a
\* prompt equal to p in id, name, folder, description, filename, use_count,
\* last_used, created, updated, icon, color and content.
C26_PromptRoundTrip ==
    Converted("convert_prompt") =>
       /\ task.data.back.ok
       /\ \A f \in {"id", "name", "folder", "description", "filename", "use_count",
                    "last_used", "created", "updated", "icon", "color"} :
             task.data.back.val.metadata[f] = task.data.prompt.metadata[f]
       /\ task.data.back.val.content = task.data.prompt.content

\* a prompt with every optional field set and a use count of two digits has
\* been converted
C26_Witness ==
    /\ Converted("convert_prompt")
    /\ task.data.prompt.metadata.last_used # Never
    /\ task.data.prompt.metadata.icon # None
    /\ task.data.prompt.metadata.color # None
    /\ task.data.prompt.metadata.description # ""
    /\ task.data.prompt.metadata.use_count >= 10
    /\ task.data.back.ok

\* the folder_meta of a and of b are both absent or both present and equal
SameFolderMeta(a, b) ==
    /\ a.folder_meta.present = b.folder_meta.present
    /\ a.folder_meta.present => a.folder_meta.map = b.folder_meta.map

\* C27 as stated: for every UserMeta m, to_user_meta(from_user_meta(m))
\* returns the folders of m in the same order and a folder_meta present
\* exactly when that of m is, with the same name, icon and color per folder.
C27_AsStated ==
    Converted("convert_meta") =>
       /\ task.data.back.folders = task.data.meta.folders
       /\ SameFolderMeta(task.data.back, task.data.meta)

\* C27: for every UserMeta m whose folders are not empty,
\* to_user_meta(from_user_meta(m)) returns the folders of m in the same
\* order; for empty folders it returns <<"uncategorized">>; in both cases the
\* folder_meta is present exactly when that of m is, with the same name, icon
\* and color per folder.
C27_UserMetaRoundTrip ==
    Converted("convert_meta") =>
       /\ task.data.meta.folders # <<>>
             => task.data.back.folders = task.data.meta.folders
       /\ task.data.meta.folders = <<>>
             => task.data.back.folders = <<"uncategorized">>
       /\ SameFolderMeta(task.data.back, task.data.meta)

\* a UserMeta of two folders with metadata for two folders, one named
\* otherwise than its key and one without icon, has been converted
C27_Witness ==
    /\ Converted("convert_meta")
    /\ Len(task.data.meta.folders) = 2
    /\ task.data.meta.folder_meta.present
    /\ DOMAIN task.data.meta.folder_meta.map = {"work", "misc"}
    /\ task.data.meta.folder_meta.map["work"].name # "work"
    /\ task.data.meta.folder_meta.map["misc"].icon = None
    /\ task.data.meta.folder_meta.map["work"].icon # None

----------------------------------------------------------------------------
(* sync_from_firestore next to a save_prompt of the same service *)

\* the session the service was started with
DownloadSession == <<"u1", "t1">>

\* the partition of the user of DownloadSpec
UserDir == for_user(DownloadSession[1]).data_dir

\* save_prompt(prompt) calls a signed-in service has returned from: new
\* prompts of one name in one folder, so of one file, with their own contents
DownloadSavedPrompts ==
    <<Prompt(Metadata("p1", "Code Review", "work", "", 0, Never, 0, 0), "x"),
      Prompt(Metadata("p2", "Code Review", "work", "", 0, Never, 0, 0), "y")>>

\* the partition and the remote store after save_prompt(prompts[i..]), each
\* mirrored to the remote store
RECURSIVE after_saves(_, _, _, _)
after_saves(d, r, prompts, i) ==
    IF i > Len(prompts) THEN [d |-> d, r |-> r]
    ELSE LET s == save_prompt_sync(d, prompts[i], 0, "")
         IN  after_saves(s.d, remote_save_prompt(r, Prompt(s.val, prompts[i].content)),
                         prompts, i + 1)

\* the user's partition: never opened, opened and emptied of its samples,
\* or holding the samples
DownloadPartitions ==
    {EmptyPartition, delete_prompt_sync(SeededPartition, "code-review", 0).d,
     SeededPartition}

\* the user's partition and remote store at the start: nothing saved yet, or
\* the first k prompts saved on this device, or saved on another device
DownloadStarts ==
    {[d |-> d, r |-> EmptyRemote] : d \in DownloadPartitions}
    \cup {after_saves(delete_prompt_sync(SeededPartition, "code-review", 0).d,
                      EmptyRemote, SubSeq(DownloadSavedPrompts, 1, k), 1) :
             k \in 1..Len(DownloadSavedPrompts)}
    \cup {[d |-> d,
           r |-> after_saves(SeededPartition, EmptyRemote,
                             SubSeq(DownloadSavedPrompts, 1, k), 1).r] :
             d \in DownloadPartitions, k \in 1..Len(DownloadSavedPrompts)}

DownloadInit ==
    /\ state = new_with_restored_auth(DownloadSession)
    /\ \E s \in DownloadStarts :
          /\ disk = [dir \in DataDirs |->
                        IF dir = for_user(DownloadSession[1]).data_dir
                        THEN s.d ELSE EmptyPartition]
          /\ remote = [u \in Users |-> IF u = DownloadSession[1] THEN s.r ELSE EmptyRemote]
    /\ task = Idle
    /\ now = 0
    /\ ops = 0
    /\ last = NoLast

\* what save_prompt is called with while sync_from_firestore runs
RacingPrompts ==
    {Prompt(Metadata("", "Draft", "work", "", 0, Never, 0, 0), "z")}
    \cup EditedPrompts

\* save_prompt of the same service between the blocks of a running
\* sync_from_firestore: its local step, and its upload when that one has
\* reached the remote store by now
RacingSave(prompt, uuid, outcome) ==
    /\ task.op = "sync_from" /\ task.pc \in {"download", "write"}
    /\ ops < MaxOps
    /\ LET r == save_prompt_sync(disk[active], prompt, now, uuid)
           ctx == get_sync_context(state)
       IN  /\ disk' = [disk EXCEPT ![active] = r.d]
           /\ remote' = IF r.ok /\ ctx # NoCtx /\ outcome = "ok"
                        THEN [remote EXCEPT ![ctx[1]] =
                                 remote_save_prompt(@, Prompt(r.val, prompt.content))]
                        ELSE remote
    /\ ops' = ops + 1
    /\ UNCHANGED <<state, task, now, last>>

DownloadNext ==
    \/ SyncFromStart
    \/ \E m \in Outcomes, l \in Outcomes : SyncFromDownload(m, l)
    \/ SyncFromWrite
    \/ \E p \in RacingPrompts, uuid \in Uuids \ UsedIds, outcome \in {"ok", "net"} :
          RacingSave(p, uuid, outcome)

DownloadSpec == DownloadInit /\ [][DownloadNext]_vars

----------------------------------------------------------------------------
(* MoveSpec: one call of delete_folder_sync in which a file move may fail.  *)

\* Most prompts saved before the call.
MaxMoved == 2

\* the move loop of delete_folder_sync from position i, when the rename
\* numbered fail_at fails (0: none does); moved counts the renames done
RECURSIVE move_or_fail(_, _, _, _, _, _)
move_or_fail(d, prompts, folder_name, i, fail_at, moved) ==
    IF i > Len(prompts) THEN Ok(d, <<>>)
    ELSE IF prompts[i].folder = folder_name
              /\ file_exists(d, folder_name, prompts[i].filename)
         THEN IF moved + 1 = fail_at THEN Err(d, "IoError")
              ELSE move_or_fail(
                       rename_file(d, Key(folder_name, prompts[i].filename),
                                      Key("uncategorized", prompts[i].filename)),
                       prompts, folder_name, i + 1, fail_at, moved + 1)
         ELSE move_or_fail(d, prompts, folder_name, i + 1, fail_at, moved)

\* delete_folder_sync with the outcome of its renames given: the rename
\* numbered fail_at returns an error
delete_folder_sync_io(d, name, t, fail_at) ==
    LET l == load_index_sync(d, t)
        index == l.val
        folder_name == normalize(name)
        d1 == [l.d EXCEPT !.dirs = @ \cup {"uncategorized"}]
        mv == move_or_fail(d1, index.prompts, folder_name, 1, fail_at, 0)
        d3 == IF folder_name \in mv.d.dirs THEN remove_dir_all(mv.d, folder_name) ELSE mv.d
        index2 == [index EXCEPT !.prompts = reassign(@, folder_name, "uncategorized"),
                                !.folders = retain_not(@, folder_name)]
    IN  IF folder_name = "uncategorized" THEN Err(l.d, "InvalidInput")
        ELSE IF ~contains(index.folders, folder_name) THEN Err(l.d, "NotFound")
        ELSE IF ~mv.ok THEN Err(mv.d, mv.err)
        ELSE Ok(save_index_sync(d3, index2), <<>>)

\* save_prompt(prompt) calls made before: new prompts
MovedPrompts ==
    {Prompt(Metadata("", n, f, "", 0, Never, 0, 0), c) :
        n \in {"A", "B", "C"}, f \in {"work", "development"}, c \in {"x", "y"}}

\* the partition after save_prompt of the prompts of list ps, from position i
RECURSIVE saved_all(_, _, _)
saved_all(d, ps, i) ==
    IF i > Len(ps) THEN d
    ELSE saved_all(save_prompt_sync(d, ps[i], 0, "uuid-" \o ToString(i)).d, ps, i + 1)

MovePartitions ==
    UNION {{saved_all(SeededPartition, ps, 1) : ps \in [1..n -> MovedPrompts]}
              : n \in 1..MaxMoved}

MoveInit ==
    /\ state = new
    /\ \E d \in MovePartitions :
          disk = [dir \in DataDirs |->
                     IF dir = new_store.data_dir THEN d ELSE EmptyPartition]
    /\ remote = [u \in Users |-> EmptyRemote]
    /\ \E name \in {"work", " Development"}, fail_at \in 0..MaxMoved :
          task = Task("delete_folder", "call", new_store.data_dir, "none",
                      [name |-> name, fail_at |-> fail_at], <<>>, "pending")
    /\ now = 0
    /\ ops = 0
    /\ last = NoLast

\* delete_folder_sync on the inputs drawn; the task keeps the partition found
MoveCall ==
    /\ At("call")
    /\ task.op = "delete_folder"
    /\ LET r == delete_folder_sync_io(disk[task.part], task.data.name, now,
                                      task.data.fail_at)
       IN  /\ disk' = [disk EXCEPT ![task.part] = r.d]
           /\ task' = [task EXCEPT
                         !.pc = "done",
                         !.local = IF r.ok THEN "ok" ELSE "err",
                         !.res = IF r.ok THEN "Ok" ELSE r.err,
                         !.data = [name |-> task.data.name,
                                   fail_at |-> task.data.fail_at,
                                   before |-> disk[task.part]]]
    /\ UNCHANGED <<state, remote, now, last, ops>>

MoveNext == MoveCall

MoveSpec == MoveInit /\ [][MoveNext]_vars

----------------------------------------------------------------------------
(* MirrorSpec: mutating operations of a signed-in service whose mirror      *)
(* calls all succeed, from a remote store that holds what the partition does *)

\* FirestoreClient::upload_all with every call succeeding: save_meta, then
\* save_prompt of prompts[i..]
RECURSIVE upload_all(_, _, _, _)
upload_all(r, index, prompts, i) ==
    IF i = 0 THEN upload_all(remote_save_meta(r, meta_of(index)), index, prompts, 1)
    ELSE IF i > Len(prompts) THEN r
    ELSE upload_all(remote_save_prompt(r, prompts[i]), index, prompts, i + 1)

\* the remote store after a sync_to_firestore of partition d that succeeded
synced_remote(d) ==
    upload_all(EmptyRemote, d.index,
               load_all_prompts_sync(d, d.index, 0, 1, <<>>).val, 0)

\* the user's partition at the start: the samples, or the samples and a prompt
MirrorPartitions ==
    {SeededPartition,
     save_prompt_sync(SeededPartition,
                      Prompt(Metadata("p1", "Notes", "writing", "", 0, Never, 0, 0), "y"),
                      0, "").d}

MirrorInit ==
    /\ state = new_with_restored_auth(DownloadSession)
    /\ \E d \in MirrorPartitions :
          /\ disk = [dir \in DataDirs |-> IF dir = UserDir THEN d ELSE EmptyPartition]
          /\ remote = [u \in Users |->
                          IF u = DownloadSession[1] THEN synced_remote(d) ELSE EmptyRemote]
    /\ task = Idle
    /\ now = 0
    /\ ops = 0
    /\ last = NoLast

MirrorNext ==
    \/ \E p \in NewPrompts, uuid \in Uuids \ UsedIds : SavePrompt(p, uuid)
    \/ \E p \in EditedPrompts : SavePrompt(p, "")
    \/ \E id \in InputIds : DeletePrompt(id)
    \/ \E name \in InputAddFolders : AddFolder(name)
    \/ \E r \in InputRenames : RenameFolder(r[1], r[2])
    \/ \E name \in InputDeleteFolders : DeleteFolder(name)
    \/ \E id \in InputIds : RecordUsage(id)
    \/ Reload
    \/ Mirror("ok")
    \/ Return

MirrorSpec == MirrorInit /\ [][MirrorNext]_vars

----------------------------------------------------------------------------
(* RaceSpec: two mutating operations of one service at a time.  Their local *)
(* steps hold the read side of the lock, so the reads and writes of the two *)
(* interleave: each loads the index, then writes what it made of it.        *)

\* the operations that race: save_prompt of a new prompt, record_usage of
\* the sample; a record_usage carries its id in a prompt of that id
RaceOps ==
    {[op |-> "save_prompt", prompt |-> Prompt(Metadata("", n, f, "", 0, Never, 0, 0), "x")] :
        n \in {"A", "B"}, f \in {"work", "development"}}
    \cup {[op |-> "record_usage",
           prompt |-> Prompt(Metadata("code-review", "", "", "", 0, Never, 0, 0), "")]}

\* operation o in thread i, before it has loaded the index
RaceProc(o, i) ==
    [op |-> o.op, prompt |-> o.prompt, uuid |-> "uuid-" \o ToString(i),
     pc |-> "load", index |-> NoFile, ok |-> FALSE]

RaceInit ==
    /\ state = new
    /\ \E d \in {SeededPartition,
                 record_usage_sync(SeededPartition, "code-review", 0).d} :
          /\ disk = [dir \in DataDirs |->
                        IF dir = new_store.data_dir THEN d ELSE EmptyPartition]
          /\ \E o1 \in RaceOps, o2 \in RaceOps :
                task = Task("race", "run", new_store.data_dir, "none",
                            [procs |-> <<RaceProc(o1, 1), RaceProc(o2, 2)>>,
                             before |-> d],
                            <<>>, "pending")
    /\ remote = [u \in Users |-> EmptyRemote]
    /\ now = 0
    /\ ops = 0
    /\ last = NoLast

\* the first statement of the operation of thread i: load_index_sync
RaceLoad(i) ==
    /\ task.op = "race" /\ task.data.procs[i].pc = "load"
    /\ LET l == load_index_sync(disk[task.part], now)
       IN  /\ disk' = [disk EXCEPT ![task.part] = l.d]
           /\ task' = [task EXCEPT !.data.procs[i].pc = "store",
                                   !.data.procs[i].index = l.val]
    /\ UNCHANGED <<state, remote, now, last, ops>>

\* the rest of the operation of thread i, on the index it loaded: the change
\* to the index, the content write, save_index_sync
RaceStore(i) ==
    /\ task.op = "race" /\ task.data.procs[i].pc = "store"
    /\ LET p == task.data.procs[i]
           loaded == [disk[task.part] EXCEPT !.index = p.index]
           r == IF p.op = "save_prompt"
                THEN save_prompt_sync(loaded, p.prompt, now, p.uuid)
                ELSE record_usage_sync(loaded, p.prompt.metadata.id, now)
           q == [task.data.procs EXCEPT ![i].pc = "done", ![i].ok = r.ok]
       IN  /\ disk' = [disk EXCEPT ![task.part] = r.d]
           /\ task' = [task EXCEPT
                         !.data.procs = q,
                         !.pc = IF \A j \in DOMAIN q : q[j].pc = "done"
                                THEN "done" ELSE "run"]
    /\ UNCHANGED <<state, remote, now, last, ops>>

RaceNext ==
    \/ \E i \in {1, 2} : RaceLoad(i)
    \/ \E i \in {1, 2} : RaceStore(i)

RaceSpec == RaceInit /\ [][RaceNext]_vars

----------------------------------------------------------------------------
(* Properties: sync_from_firestore *)

\* the sync_from_firestore that is running has downloaded, was not skipped,
\* and has not written yet
Downloaded == task.op = "sync_from" /\ task.pc = "write"

\* C28: when the remote user document is missing, fetch_meta returns without
\* error a UserMeta with folders = ["uncategorized"] and no folderMeta, so the
\* index download_all assembles has exactly the folder "uncategorized"
C28_MissingMetaDefaults ==
    \A u \in Users :
       Len(remote[u].meta) = 0 =>
          /\ fetch_meta(remote[u]) = UserMeta(<<"uncategorized">>, NoFolderMeta)
          /\ (Downloaded /\ task.data.user = u)
                => task.data.index.folders = <<"uncategorized">>

\* the ids of the active partition's index, none when there is no index file
ActiveIds(dsk) ==
    IF dsk[active].index = NoFile THEN {} ELSE IdsOf(dsk[active].index)

\* C29: sync_from_firestore never replaces a non-empty local index by an
\* empty one, also when local operations ran on the active partition after
\* it counted the local prompts: when the remote store returned no prompt,
\* every prompt the index held just before the write is in it afterwards
C29_KeepsLocalPrompts ==
    [][(SyncFromWrite /\ Len(task.data.index.prompts) = 0)
          => ActiveIds(disk) \subseteq ActiveIds(disk')]_vars

\* the write block has run: index and content of every downloaded prompt
\* are what the download returned
WrittenAsDownloaded ==
    /\ disk'[active].index.prompts = task.data.index.prompts
    /\ disk'[active].index.folders = task.data.index.folders
    /\ disk'[active].index.seeded
    /\ \A i \in DOMAIN task.data.prompts :
          LET r == get_prompt_sync(disk'[active], task.data.prompts[i].metadata.id, now)
          IN  r.ok /\ r.val = task.data.prompts[i]

\* no two downloaded prompts are kept in the same file
DistinctFiles(prompts) ==
    \A i, j \in DOMAIN prompts :
       (prompts[i].metadata.folder = prompts[j].metadata.folder
          /\ prompts[i].metadata.filename = prompts[j].metadata.filename) => i = j

\* C30: when the safety check does not apply and no step fails,
\* sync_from_firestore leaves the active partition with the downloaded
\* prompts and folders in its index, seeded = true, and get_prompt_sync of
\* every downloaded id returning the downloaded prompt with its content
C30_LocalIsDownloaded ==
    [][SyncFromWrite => WrittenAsDownloaded]_vars

\* the same, for downloads in which every prompt has a file of its own
DownloadedWithDistinctFiles ==
    [][(SyncFromWrite /\ DistinctFiles(task.data.prompts)) => WrittenAsDownloaded]_vars

\* sync_from_firestore, with nothing else running meanwhile, has returned
\* the error of its download
DownloadFailed ==
    /\ task.op = "sync_from" /\ task.pc = "done" /\ task.res = "RemoteError"
    /\ ops = 1

\* the listing of sync_from_firestore, with nothing else running meanwhile,
\* was answered for a user who has no prompts collection
ListingNotFound ==
    /\ task.op = "sync_from" /\ Len(task.calls) = 2
    /\ task.calls[2].kind = "fetch_all_prompts" /\ task.calls[2].outcome = "ok"
    /\ ops = 1
    /\ Len(remote[task.data.user].prompts) = 0

\* the listing was taken as an empty list, not as an error
TakenAsEmptyList ==
    /\ task.res # "RemoteError"
    /\ task.data.prompts = <<>>
    /\ task.pc = "write" \/ task.data.skipped \/ task.res = "Ok"

\* the first block of a sync_from_firestore that goes on to download
StartsDownload == SyncFromStart /\ state.user_id # None /\ state.id_token # None

\* a download answered with a failure of fetch_meta or of fetch_all_prompts
FailsDownload ==
    \E m \in Outcomes, l \in Outcomes :
       SyncFromDownload(m, l) /\ (m # "ok" \/ (m = "ok" /\ l # "ok"))

\* the call returns the error of the download, the disk as it was
DownloadErrorReturned ==
    task'.pc = "done" /\ task'.res = "RemoteError" /\ disk' = disk

\* C31 as stated: when fetch_meta or fetch_all_prompts is answered with a
\* non-success response other than not-found, sync_from_firestore returns an
\* error and the local index and content files are unchanged, by any step of
\* the call up to that return; a not-found answer to the listing is taken as
\* an empty list
C31_AsStated ==
    [][/\ StartsDownload => disk' = disk
       /\ FailsDownload => DownloadErrorReturned
       /\ ListingNotFound' => TakenAsEmptyList'
      ]_vars

\* the partition has an index file that is not an empty, never seeded one
HasLoadableIndex(d) ==
    IF d.index = NoFile THEN FALSE
    ELSE Len(d.index.prompts) > 0 \/ d.index.seeded

\* C31, amended: the same, for a call that finds on the active partition an
\* index file other than an empty, never seeded one; on a partition without
\* one the first block of the call seeds the samples before the download is
\* tried
C31_DownloadErrorKeepsLocal ==
    [][/\ (StartsDownload /\ HasLoadableIndex(disk[active])) => disk' = disk
       /\ FailsDownload => DownloadErrorReturned
       /\ ListingNotFound' => TakenAsEmptyList'
      ]_vars

\* a download has failed on a partition that had its index file
C31_Witness ==
    /\ DownloadFailed
    /\ Len(disk[UserDir].index.prompts) = 0
    /\ Len(task.calls) = 2

----------------------------------------------------------------------------
(* Properties: errors of the sync operations *)

\* the service holds no user id, or no token
Unauthenticated == state.user_id = None \/ state.id_token = None

\* the call returns an error at once: no remote call, no local change
RefusedUnauthenticated ==
    /\ task'.pc = "done"
    /\ task'.res \in {"NotAuthenticated", "NoAuthToken"}
    /\ task'.calls = <<>>
    /\ disk' = disk
    /\ remote' = remote

\* C32: sync_to_firestore and sync_from_firestore called while the service
\* holds no user id or no token return an error, issue no remote call and
\* change no local data
C32_SyncNeedsCredentials ==
    [][((SyncToStart \/ SyncFromStart) /\ Unauthenticated) => RefusedUnauthenticated]_vars

\* sync_from_firestore has been refused for want of credentials on a
\* partition that has no index file
C32_Witness ==
    /\ task.op = "sync_from" /\ task.res = "NotAuthenticated"
    /\ disk[task.part].index = NoFile

\* the ids of a list of prompt metadata, in order
IdList(prompts) == [i \in DOMAIN prompts |-> prompts[i].id]

\* C33: upload_all issues save_meta before any save_prompt and then saves
\* the prompts one call at a time in index order; a failing call ends the
\* upload with that error and no further call, the prompts after it unsent
\* and those before it written
C33_UploadInOrder ==
    (task.op = "sync_to" /\ Len(task.calls) > 0) =>
       LET n == Len(task.calls)
           ids == IdList(task.data.index.prompts)
       IN  /\ task.calls[1].kind = "save_meta"
           /\ \A k \in 2..n : task.calls[k].kind = "save_prompt"
           /\ \A k \in 1..(n - 1) : task.calls[k].outcome = "ok"
           /\ n <= Len(ids) + 1
           /\ [i \in DOMAIN task.data.queue |-> task.data.queue[i].metadata.id]
                 = SubSeq(ids, n, Len(ids))
           /\ task.calls[n].outcome # "ok"
                 => task.pc = "done" /\ task.res = "RemoteError"
           /\ task.calls[1].outcome = "ok" => Len(remote[task.data.user].meta) = 1
           /\ \A k \in 2..n :
                 task.calls[k].outcome = "ok"
                    => doc_position(remote[task.data.user].prompts, ids[k - 1]) # 0

\* an upload of two prompts has failed on the first of them, after save_meta
C33_Witness ==
    /\ task.op = "sync_to" /\ task.res = "RemoteError"
    /\ Len(task.calls) = 2 /\ task.calls[2].outcome # "ok"
    /\ Len(task.data.index.prompts) = 2
    /\ Len(task.data.queue) = 1

----------------------------------------------------------------------------
(* Properties: save_prompt_sync, updates and failures *)

\* the entry the index on disk held for the id passed, before the call
StoredBefore ==
    task.data.before.index.prompts[
        position(task.data.before.index.prompts, task.data.prompt.metadata.id)]

\* the call found an index file holding the id passed
UpdatedStored ==
    /\ task.op = "save_prompt" /\ task.pc = "done"
    /\ task.data.before.index # NoFile
    /\ position(task.data.before.index.prompts, task.data.prompt.metadata.id) # 0

\* C34: an update keeps the creation timestamp: after save_prompt(r) with
\* r.id in the index, the created value stored for that id is the one
\* stored before the call, whatever created value r carries
C34_CreatedPreserved ==
    (Saved /\ UpdatedStored) =>
       LET after == disk[task.part].index.prompts
       IN  after[position(after, task.data.prompt.metadata.id)].created
              = StoredBefore.created

\* save_prompt_sync has returned the error of its content write
WriteFailed == task.op = "save_prompt" /\ task.pc = "done" /\ task.res = "IoError"

----------------------------------------------------------------------------
(* Properties: delete_folder_sync with a failing move *)

\* delete_folder_sync has returned the error of a file move
MoveFailed == task.op = "delete_folder" /\ task.pc = "done" /\ task.res = "IoError"

\* the index on disk is the one the call found
IndexNotPersisted == disk[task.part].index = task.data.before.index

\* get_prompt of every prompt of the folder returns the content it had
ContentsKept ==
    \A i \in DOMAIN task.data.before.index.prompts :
       LET m == task.data.before.index.prompts[i]
       IN  m.folder = normalize(task.data.name)
              => get_prompt_sync(disk[task.part], m.id, now).val.content
                    = get_prompt_sync(task.data.before, m.id, now).val.content

\* C36: when a file move fails during delete_folder(F), delete_folder
\* returns an error without persisting the index: the index on disk still
\* lists F and keeps every prompt of F in F, and get_prompt of each of those
\* prompts still returns its content
C36_FailedMoveKeepsFolder ==
    MoveFailed => (IndexNotPersisted /\ ContentsKept)

\* the part of C36 about the index alone
FailedMoveKeepsIndex == MoveFailed => IndexNotPersisted

----------------------------------------------------------------------------
(* Properties: the remote mirror *)

\* the prompts of partition d as get_prompt returns them
LocalPrompts(d) ==
    {get_prompt_sync(d, d.index.prompts[i].id, now).val : i \in DOMAIN d.index.prompts}

\* the prompts of the remote store r
RemotePrompts(r) ==
    LET ps == fetch_all_prompts(r) IN {ps[i] : i \in DOMAIN ps}

\* the remote store holds the prompts, each with its folder, and the folder
\* list of the partition
RemoteEqualsLocal(d, r) ==
    /\ RemotePrompts(r) = LocalPrompts(d)
    /\ fetch_meta(r).folders = d.index.folders

\* C37: from a remote store equal to the local partition, after any
\* sequence of save_prompt, delete_prompt, add_folder, rename_folder,
\* delete_folder and record_usage of a signed-in service whose mirror calls
\* all succeed, the remote prompt documents and folder list equal the local
\* prompts, each with its folder, and the local folder list
C37_MirrorTracksLocal ==
    task.pc = "done" => RemoteEqualsLocal(disk[UserDir], remote[DownloadSession[1]])

\* the same, on the prompts alone and without their folders
SamePromptsButFolders ==
    task.pc = "done" =>
       {[p EXCEPT !.metadata.folder = ""] : p \in RemotePrompts(remote[DownloadSession[1]])}
          = {[p EXCEPT !.metadata.folder = ""] : p \in LocalPrompts(disk[UserDir])}

\* C38: a mirror call goes to the remote namespace of the user whose
\* partition received the local step: the call of a mutating operation whose
\* local step ran on partition P carries the user id of P, and no call is
\* issued when P is the anonymous partition, also when set_auth or clear_auth
\* ran between the local step and get_sync_context
C38_MirrorFollowsPartition ==
    (task.op \in MutatingOps /\ Len(task.calls) > 0) =>
       /\ task.part # new_store.data_dir
       /\ \A k \in DOMAIN task.calls : task.part = for_user(task.calls[k].user).data_dir

----------------------------------------------------------------------------
(* Properties: concurrent local steps *)

\* both operations have returned success
BothSucceeded ==
    /\ task.op = "race" /\ task.pc = "done"
    /\ \A i \in DOMAIN task.data.procs : task.data.procs[i].ok

\* how many of the operations are record_usage of id
UsagesOf(id) ==
    Cardinality({i \in DOMAIN task.data.procs :
                    /\ task.data.procs[i].op = "record_usage"
                    /\ task.data.procs[i].prompt.metadata.id = id})

\* the index on disk shows the operation of thread i
Reflected(i) ==
    LET p == task.data.procs[i]
        index == disk[task.part].index
    IN  IF p.op = "save_prompt"
        THEN position(index.prompts, p.uuid) # 0
        ELSE UseCountOf(disk[task.part], p.prompt.metadata.id)
                = UseCountOf(task.data.before, p.prompt.metadata.id)
                     + UsagesOf(p.prompt.metadata.id)

\* C39: no local mutation is lost to a concurrent one: when two mutating
\* operations on one partition run at the same time and both return success,
\* the index on disk afterwards shows both of them
C39_NoLostMutation ==
    BothSucceeded => \A i \in DOMAIN task.data.procs : Reflected(i)

\* C40: saving one prompt never changes the content of another: for
\* distinct ids A and B of one partition, after any save_prompt of B, create
\* or update, also of a B with the name and folder of A, get_prompt(A)
\* returns the content it returned before
C40_OtherContentsKept ==
    (Saved /\ task.data.before.index # NoFile) =>
       \A i \in DOMAIN task.data.before.index.prompts :
          LET a == task.data.before.index.prompts[i].id
          IN  a # task.data.m.id
                 => get_prompt_sync(disk[task.part], a, now).val.content
                       = get_prompt_sync(task.data.before, a, now).val.content

====
